---------------------------- MODULE Spec2Model ----------------------------
(***************************************************************************)
(* A model of conpty: a child process attached to a Windows pseudo         *)
(* console, the handles the parent holds on it, the PipeReader/PipeWriter  *)
(* wrappers over duplicated handles, and the teardown of Process.          *)
(*                                                                         *)
(* The kernel is modelled by what the code relies on: a handle table whose *)
(* entries refer to kernel objects (an object lives while a handle refers  *)
(* to it), two byte pipes, the console host that holds the other pipe ends *)
(* while the pseudo console is open, and a child process that is Running   *)
(* or Exited.                                                              *)
(***************************************************************************)
EXTENDS Integers, Sequences, FiniteSets, TLC

\* ------------------------------------------------------------------ bounds
MaxReaders == 2
MaxWriters == 2
MaxBytes == 2
MaxCode == 1
U32Max == 2
MaxBufLen == 2
MaxInBuf == 1
MaxStrLen == 1
MaxEnvs == 2
MaxArgs == 2
MaxFiles == 2
MaxStdin == 4
MaxAttrSize == 3
MaxConout == 2

\* GetExitCodeProcess reports this value for a process that has not exited.
STILL_ACTIVE == 259

Readers == 1..MaxReaders
Writers == 1..MaxWriters
ExitCodes == 0..MaxCode
\* Option<u32>: <<>> is None, <<t>> is Some(t). u32 is scaled down to 0..U32Max.
Timeouts == {<<>>} \cup {<<t>> : t \in 0..U32Max}

ROwner(r) == "PipeReader" \o ToString(r)
WOwner(w) == "PipeWriter" \o ToString(w)

\* A handle value is named after the variable or the wrapper that first holds it:
\* the four pipe ends of createPseudoConsole, the two handles of
\* PROCESS_INFORMATION, one duplicate per wrapper, and the handles that
\* stdout_handle opens on CONOUT$.
SpawnHandles == {"pty_in", "con_writer", "con_reader", "pty_out", "hProcess", "hThread"}
ConoutHandles == {"conout" \o ToString(i) : i \in 1..MaxConout}
Handles ==
    SpawnHandles \cup {ROwner(r) : r \in Readers} \cup {WOwner(w) : w \in Writers}
        \cup ConoutHandles
NullHandle == "null"

VARIABLES
    phase,      \* "init" | "live" | "dropped" | "failed"
    handles,    \* the parent's handle table
    proc,       \* the fields of Process
    con,        \* the pseudo-console object (HPCON) and the console host
    attr,       \* the attribute-list buffer
    tlog,       \* the calls Drop for Process has made, in order
    readers,    \* PipeReader instances
    writers,    \* PipeWriter instances
    outBuf,     \* bytes in the output pipe (child -> parent)
    produced,   \* bytes the child has written so far
    inBuf,      \* number of bytes in the input pipe (parent -> child)
    inEnded,    \* the console host has seen the end of the input stream
    nowait,     \* the readers that have called set_non_blocking_mode
    child,      \* the child process: state, exit code, pending termination
    panicked,   \* a drop has panicked
    stdin,      \* the input records waiting in the console input buffer of stdin
    files,      \* for each handle, the number of std::fs::File objects that hold it
    ret         \* what the call made in the last step returned, if it returned a value

vars == <<phase, handles, proc, con, attr, tlog, readers, writers, outBuf,
          produced, inBuf, inEnded, nowait, child, panicked, stdin, files, ret>>

\* ------------------------------------------------------------ handle table
NoHandle ==
    [obj |-> "none", open |-> FALSE, closes |-> 0, owner |-> "none", closer |-> "none"]

\* A new open handle h on kernel object obj.
PutHandle(hs, h, obj, owner) ==
    [hs EXCEPT ![h] = [obj |-> obj, open |-> TRUE, closes |-> 0,
                       owner |-> owner, closer |-> "none"]]

IsOpen(hs, h) == h \in Handles /\ hs[h].open

\* CloseHandle(h) called by `by`: succeeds on an open handle, fails on an
\* invalid one; either way the call is counted (up to 2).
CloseHandleOk(hs, h) == IsOpen(hs, h)

CloseHandle(hs, h, by) ==
    IF h \in Handles
    THEN [hs EXCEPT ![h] = [@ EXCEPT !.open = FALSE,
                                     !.closes = IF @ < 2 THEN @ + 1 ELSE @,
                                     !.closer = IF hs[h].open THEN by ELSE @]]
    ELSE hs

SetOwner(hs, h, owner) ==
    IF h \in Handles THEN [hs EXCEPT ![h].owner = owner] ELSE hs

\* The kernel object behind a handle is alive while an open handle refers to it.
ObjOpenIn(hs, obj) == \E h \in Handles : hs[h].open /\ hs[h].obj = obj

\* ------------------------------------------------------------------ results
\* op: the call; who: the wrapper that made it; kind: Ok or the error; n: the
\* number returned; arg: the arguments; data: the bytes returned; err: the
\* native error or outcome behind the result.
Ret(op, who, kind, n, arg, data, err) ==
    [op |-> op, who |-> who, kind |-> kind, n |-> n, arg |-> arg, data |-> data,
     err |-> err]

NoRet == Ret("none", 0, "none", 0, <<>>, <<>>, "none")

\* -------------------------------------------------------------------- spawn
\* A spawn_command that builds the attribute list after process creation.
SpawnStepsAttrLast ==
    << "pipe_in", "pipe_out", "CreatePseudoConsole", "close_pty_in", "close_pty_out",
       "CreateProcessW", "attr_size", "attr_init", "attr_update" >>

\* The native calls of spawn_command, in the order the code makes them.
SpawnSteps ==
    << "pipe_in",              \* createPseudoConsole: pipe() -> (pty_in, con_writer)
       "pipe_out",             \* createPseudoConsole: pipe() -> (con_reader, pty_out)
       "CreatePseudoConsole",
       "close_pty_in",         \* CloseHandle(pty_in)?
       "close_pty_out",        \* CloseHandle(pty_out)?
       "attr_size",            \* the sizing call of InitializeProcThreadAttributeList
       "attr_init",            \* Box::leak, then InitializeProcThreadAttributeList
       "attr_update",          \* UpdateProcThreadAttribute
       "CreateProcessW" >>

StepIndex(steps, name) == CHOOSE i \in 1..Len(steps) : steps[i] = name

\* fail = 0: every call succeeds; fail = k: call k fails and spawn returns its error.
SpawnFailures == 0..Len(SpawnSteps)

Passed(fail, name) == fail = 0 \/ StepIndex(SpawnSteps, name) < fail

\* A console window rectangle: <<Left, Top, Right, Bottom>>.
WindowRects == {<<2, 1, 9, 4>>}
\* Option<(i16, i16)> given to set_console_size.
SizeOptions == {<<>>, <<<<3, 2>>>>}
\* The outcome of inhirentConsoleSize: <<>> when CONOUT$ cannot be read.
InheritOutcomes == {<<>>} \cup {<<w>> : w \in WindowRects}

inhirentConsoleSize(w) == <<w[3] - w[1] + 1, w[4] - w[2] + 1>>

\* A size that prefers the current terminal's window to the caller's size.
ConsoleSizeInheritFirst(opt, inherit) ==
    IF inherit # <<>> THEN inhirentConsoleSize(inherit[1])
    ELSE IF opt # <<>> THEN opt[1]
    ELSE <<80, 25>>

\* A spawn that returns the error of enableVirtualTerminalSequenceProcessing.
vt_error_returned(reached) ==
    IF reached THEN "none" ELSE "enableVirtualTerminalSequenceProcessing"

\* let _ = enableVirtualTerminalSequenceProcessing(): the call opens CONOUT$
\* as inhirentConsoleSize does; its error is dropped.
vt_error(reached) == "none"

\* size.or_else(|| inhirentConsoleSize().ok()).unwrap_or(COORD { X: 80, Y: 25 })
ConsoleSize(opt, inherit) ==
    IF opt # <<>> THEN opt[1]
    ELSE IF inherit # <<>> THEN inhirentConsoleSize(inherit[1])
    ELSE <<80, 25>>

\* A createPseudoConsole that returns the two kept pipe ends in the other order.
createPseudoConsoleReturnSwapped(fail) ==
    [input |-> IF Passed(fail, "pipe_out") THEN "con_reader" ELSE NullHandle,
     output |-> IF Passed(fail, "pipe_in") THEN "con_writer" ELSE NullHandle]

\* Ok((console, con_reader, con_writer)), bound by spawn_command to
\* (console, output, input).
createPseudoConsoleReturn(fail) ==
    [input |-> IF Passed(fail, "pipe_in") THEN "con_writer" ELSE NullHandle,
     output |-> IF Passed(fail, "pipe_out") THEN "con_reader" ELSE NullHandle]

\* createPseudoConsole: the handle table after its calls up to failure `fail`.
createPseudoConsoleHandles(hs0, fail) ==
    LET hs2 == PutHandle(PutHandle(hs0, "pty_in", "inR", "createPseudoConsole"),
                         "con_writer", "inW", "spawn_command")
        hs4 == PutHandle(PutHandle(hs2, "con_reader", "outR", "spawn_command"),
                         "pty_out", "outW", "createPseudoConsole")
        hs5 == CloseHandle(hs4, "pty_in", "createPseudoConsole")
        hs6 == CloseHandle(hs5, "pty_out", "createPseudoConsole")
    IN  [hs |-> IF Passed(fail, "close_pty_out") THEN hs6
                ELSE IF Passed(fail, "close_pty_in") THEN hs5
                ELSE IF Passed(fail, "pipe_out") THEN hs4
                ELSE IF Passed(fail, "pipe_in") THEN hs2
                ELSE hs0,
         input |-> createPseudoConsoleReturn(fail).input,
         output |-> createPseudoConsoleReturn(fail).output]

\* execProc: CreateProcessW fills PROCESS_INFORMATION with two new handles.
execProcHandles(hs0, fail) ==
    IF Passed(fail, "CreateProcessW")
    THEN [hs |-> PutHandle(PutHandle(hs0, "hProcess", "process", "spawn_command"),
                           "hThread", "thread", "spawn_command"),
          hProcess |-> "hProcess", hThread |-> "hThread"]
    ELSE [hs |-> hs0, hProcess |-> NullHandle, hThread |-> NullHandle]

\* Process { input, output, _console, _proc, _proc_info }: the handles move
\* into the Process, which owns them from here on.
OwnedByProcess(hs, p) ==
    SetOwner(SetOwner(SetOwner(SetOwner(hs, p.input, "Process"), p.output, "Process"),
                      p.hProcess, "Process"), p.hThread, "Process")

NoProc == [input |-> NullHandle, output |-> NullHandle,
           hProcess |-> NullHandle, hThread |-> NullHandle, pid |-> 0]

\* spawn_command(command, size)
Spawn(opt, inherit, fail) ==
    /\ phase = "init"
    /\ LET terr == vt_error(inherit # <<>>)
           f == IF terr # "none" THEN 1 ELSE fail
           size == ConsoleSize(opt, inherit)
           c == createPseudoConsoleHandles(handles, f)
           e == execProcHandles(c.hs, f)
           p == [input |-> c.input, output |-> c.output,
                 hProcess |-> e.hProcess, hThread |-> e.hThread, pid |-> 1]
       IN  /\ con' = [st |-> IF Passed(f, "CreatePseudoConsole") THEN "open" ELSE "none",
                      size |-> IF Passed(f, "CreatePseudoConsole") THEN size ELSE <<0, 0>>,
                      closes |-> 0]
           /\ attr' = [st |-> IF Passed(f, "attr_size") THEN "allocated" ELSE "none",
                       frees |-> 0]
           /\ IF f = 0
              THEN /\ phase' = "live"
                   /\ proc' = p
                   /\ handles' = OwnedByProcess(e.hs, p)
                   /\ child' = [st |-> "Running", code |-> 0, kill |-> <<>>]
                   /\ ret' = Ret("spawn", 0, "Ok", 0, <<size, opt, inherit>>, <<>>, "none")
              ELSE /\ phase' = "failed"
                   /\ proc' = NoProc
                   /\ handles' = e.hs
                   /\ child' = child
                   /\ ret' = Ret("spawn", 0, "Err", fail, <<size, opt, inherit>>, <<>>,
                                 IF terr # "none" THEN terr ELSE SpawnSteps[fail])
    /\ UNCHANGED <<stdin, files, tlog, readers, writers, outBuf, produced, inBuf, inEnded,
                   nowait, panicked>>


\* ---------------------------------------------------------- attribute list
PROC_THREAD_ATTRIBUTE_PSEUDOCONSOLE == 131094

\* What the sizing call InitializeProcThreadAttributeList(null, 1, 0, &mut size)
\* reports: its result and the size it wrote.
SizingOutcomes == [ok : BOOLEAN, size : 0..MaxAttrSize]
\* The values of an HPCON.
HPCONs == {1, 2}

\* A test of the sizing call that looks at the size only.
sizing_rejected_size_only(sz) == sz.size = 0

\* if res.is_ok() || size == 0 { return Err(..) }
sizing_rejected(sz) == sz.ok \/ sz.size = 0

\* initializeStartupInfoAttachedToConPTY(hPC): alloc is the number of bytes
\* it allocated, list the state of the list in that buffer, attribute the
\* <<key, value>> of the attribute it set; failInit and failUpdate are the
\* second InitializeProcThreadAttributeList and UpdateProcThreadAttribute failing.
initializeStartupInfoAttachedToConPTY(hPC, sz, failInit, failUpdate) ==
    IF sizing_rejected(sz)
    THEN [kind |-> "Err", alloc |-> 0, list |-> "none", attribute |-> <<>>,
          err |-> "failed initialize proc attribute list"]
    ELSE IF failInit
    THEN [kind |-> "Err", alloc |-> sz.size, list |-> "none", attribute |-> <<>>,
          err |-> "InitializeProcThreadAttributeList"]
    ELSE IF failUpdate
    THEN [kind |-> "Err", alloc |-> sz.size, list |-> "initialized", attribute |-> <<>>,
          err |-> "UpdateProcThreadAttribute"]
    ELSE [kind |-> "Ok", alloc |-> sz.size, list |-> "initialized",
          attribute |-> <<PROC_THREAD_ATTRIBUTE_PSEUDOCONSOLE, hPC>>, err |-> "none"]

\* spawn_command: initializeStartupInfoAttachedToConPTY(&mut console)
BuildAttributeList ==
    /\ ret.op = "HPCON"
    /\ LET k == initializeStartupInfoAttachedToConPTY(ret.arg[1], ret.arg[2], ret.arg[3],
                                                     ret.arg[4])
       IN  ret' = Ret("initializeStartupInfoAttachedToConPTY", 0, k.kind, k.alloc, ret.arg,
                      <<k.list, k.attribute>>, k.err)
    /\ UNCHANGED <<stdin, files, phase, handles, proc, con, attr, tlog, readers, writers,
                   outBuf, produced, inBuf, inEnded, nowait, child, panicked>>

\* ------------------------------------------------------------- environment
\* The UTF-16 unit of "=".
EqualsSign == 61
\* UTF-16 units of keys and values: "=" and "K".
Units == {EqualsSign, 75}
Strings == UNION {[1..n -> Units] : n \in 0..MaxStrLen}

\* Command::get_envs() yields (key, Option<value>): <<key, <<>>>> is a variable
\* marked for removal, <<key, <<value>>>> one with a value; keys are distinct
\* and come in order.
CommandEntries == {<<k, v>> : k \in Strings, v \in {<<>>} \cup {<<x>> : x \in Strings}}

RECURSIVE SeqLess(_, _)
SeqLess(a, b) ==
    IF a = <<>> THEN b # <<>>
    ELSE IF b = <<>> THEN FALSE
    ELSE IF a[1] # b[1] THEN a[1] < b[1]
    ELSE SeqLess(Tail(a), Tail(b))

RECURSIVE EnvsOfLen(_)
EnvsOfLen(n) ==
    IF n = 0 THEN {<<>>}
    ELSE {Append(e, x) : <<e, x>> \in
              {p \in EnvsOfLen(n - 1) \X CommandEntries :
                  p[1] = <<>> \/ SeqLess(p[1][Len(p[1])][1], p[2][1])}}

CommandEnvs == UNION {EnvsOfLen(n) : n \in 0..MaxEnvs}

\* envs_list: get_envs().filter_map(|(key, value)| value.map(|value| (key, value)))
RECURSIVE envs_list(_)
envs_list(e) ==
    IF e = <<>> THEN <<>>
    ELSE (IF Head(e)[2] # <<>> THEN << <<Head(e)[1], Head(e)[2][1]>> >> ELSE <<>>)
         \o envs_list(Tail(e))

\* The loop of environment_block_unicode: key, "=", value, 0 for each entry.
RECURSIVE env_entries(_)
env_entries(env) ==
    IF env = <<>> THEN <<>>
    ELSE Head(env)[1] \o <<EqualsSign>> \o Head(env)[2] \o <<0>> \o env_entries(Tail(env))

\* An environment_block_unicode without the case of the empty block.
environment_block_no_empty(env) == Append(env_entries(env), 0)

\* environment_block_unicode(env) -> Vec<u16>
environment_block_unicode(env) ==
    LET b == env_entries(env)
    IN  IF b = <<>> THEN <<0, 0>> ELSE Append(b, 0)

\* An execProc that passes the block whenever the Command names any variable.
exec_env_passed_any(e) == e # <<>>

\* execProc: envs_list().next().is_some(), whether lpEnvironment is Some(block).
exec_env_passed(e) == envs_list(e) # <<>>

\* execProc, the environment it hands to CreateProcessW: the block it built
\* and whether it passes it.
ExecProcEnv ==
    /\ ret.op = "Command"
    /\ ret' = Ret("execProc", 0, IF exec_env_passed(ret.arg) THEN "Some" ELSE "None", 0,
                  ret.arg, environment_block_unicode(envs_list(ret.arg)), "none")
    /\ UNCHANGED <<stdin, files, phase, handles, proc, con, attr, tlog, readers, writers, outBuf, produced,
                   inBuf, inEnded, nowait, child, panicked>>

\* ------------------------------------------------------------ command line
\* The UTF-16 unit of " ".
Space == 32
\* UTF-16 units of programs and arguments: " ", the double quote and "a".
CmdUnits == {Space, 34, 97}
CmdStrings == UNION {[1..n -> CmdUnits] : n \in 0..MaxStrLen}

\* Command::get_args(): the arguments in order.
RECURSIVE ArgsOfLen(_)
ArgsOfLen(n) ==
    IF n = 0 THEN {<<>>}
    ELSE {Append(p[1], p[2]) : p \in ArgsOfLen(n - 1) \X CmdStrings}

CommandArgs == UNION {ArgsOfLen(n) : n \in 0..MaxArgs}

\* The loop of build_commandline: buf.push(" "); buf.push(arg) for each argument.
RECURSIVE push_args(_, _)
push_args(buf, args) ==
    IF args = <<>> THEN buf
    ELSE push_args(buf \o <<Space>> \o Head(args), Tail(args))

\* A loop that puts each argument between double quotes.
RECURSIVE push_args_quoted(_, _)
push_args_quoted(buf, args) ==
    IF args = <<>> THEN buf
    ELSE push_args_quoted(buf \o <<Space, 34>> \o Head(args) \o <<34>>, Tail(args))

\* A build_commandline that quotes its arguments.
build_commandline_quoted(program, args) == push_args_quoted(program, args)

\* build_commandline(command) -> OsString
build_commandline(program, args) == push_args(program, args)

\* convert_osstr_to_utf16(s): the units of s, then bytes.push(0)
convert_osstr_to_utf16(s) == Append(s, 0)

\* execProc, the command line it hands to CreateProcessW as lpCommandLine.
ExecProcCommandLine ==
    /\ ret.op = "CommandLine"
    /\ ret' = Ret("execProc_commandline", 0, "Ok", 0, ret.arg,
                  convert_osstr_to_utf16(build_commandline(ret.arg[1], ret.arg[2])), "none")
    /\ UNCHANGED <<stdin, files, phase, handles, proc, con, attr, tlog, readers, writers,
                   outBuf, produced, inBuf, inEnded, nowait, child, panicked>>

\* ------------------------------------------------------------------- pipes
\* The console host holds the pseudo console's ends of both pipes (duplicated
\* into it by CreatePseudoConsole) until ClosePseudoConsole.
OutWriteEndOpen(hs, c) == c.st = "open" \/ ObjOpenIn(hs, "outW")
InReadEndOpen(hs, c) == c.st = "open" \/ ObjOpenIn(hs, "inR")
InWriteEndOpen(hs) == ObjOpenIn(hs, "inW")

Min(a, b) == IF a <= b THEN a ELSE b

\* PeekNamedPipe(h, .., &bytes, ..): the number of bytes waiting in the pipe.
PeekNamedPipe(hs, c, buf, h) ==
    IF ~IsOpen(hs, h) \/ hs[h].obj # "outR" THEN [ok |-> FALSE, n |-> 0, err |-> "InvalidHandle"]
    ELSE IF buf = <<>> /\ ~OutWriteEndOpen(hs, c) THEN [ok |-> FALSE, n |-> 0, err |-> "BrokenPipe"]
    ELSE [ok |-> TRUE, n |-> Len(buf), err |-> "none"]

\* ReadFile(h, buf, &n) on the output pipe; "Pending" is a call that has not
\* returned: the pipe is empty and its write end is still open.
ReadFile(hs, c, buf, nw, h, len) ==
    IF ~IsOpen(hs, h) \/ hs[h].obj # "outR" THEN [st |-> "Err", n |-> 0, err |-> "InvalidHandle"]
    ELSE IF buf # <<>> THEN [st |-> "Ok", n |-> Min(len, Len(buf)), err |-> "none"]
    ELSE IF ~OutWriteEndOpen(hs, c) THEN [st |-> "Err", n |-> 0, err |-> "BrokenPipe"]
    ELSE IF nw THEN [st |-> "Err", n |-> 0, err |-> "NoData"]
    ELSE [st |-> "Pending", n |-> 0, err |-> "none"]

\* WriteFile(h, buf, &n) on the input pipe; "Pending" while the pipe is full.
WriteFile(hs, c, queued, h, len) ==
    IF ~IsOpen(hs, h) \/ hs[h].obj # "inW" THEN [st |-> "Err", n |-> 0, err |-> "InvalidHandle"]
    ELSE IF ~InReadEndOpen(hs, c) THEN [st |-> "Err", n |-> 0, err |-> "NoData"]
    ELSE IF queued + len > MaxInBuf THEN [st |-> "Pending", n |-> 0, err |-> "none"]
    ELSE [st |-> "Ok", n |-> len, err |-> "none"]

\* A clone_handle that hands back the handle it was given instead of the duplicate.
clone_handle_same(hs, handle, cloned, owner) ==
    IF IsOpen(hs, handle)
    THEN [ok |-> TRUE, h |-> handle, hs |-> hs]
    ELSE [ok |-> FALSE, h |-> NullHandle, hs |-> hs]

\* clone_handle(handle): DuplicateHandle(GetCurrentProcess(), handle,
\* GetCurrentProcess(), &mut cloned_handle, ..): a new handle value `cloned` on
\* the same kernel object.
clone_handle(hs, handle, cloned, owner) ==
    IF IsOpen(hs, handle)
    THEN [ok |-> TRUE, h |-> cloned, hs |-> PutHandle(hs, cloned, hs[handle].obj, owner)]
    ELSE [ok |-> FALSE, h |-> NullHandle, hs |-> hs]

\* ---------------------------------------------------------------- wrappers
NoReader == [st |-> "none", h |-> NullHandle, blocking |-> TRUE, pc |-> "idle", avail |-> 0]
NoWriter == [st |-> "none", h |-> NullHandle]

\* PipeReader::new(handle)
NewReader(handle) == [st |-> "live", h |-> handle, blocking |-> TRUE, pc |-> "idle", avail |-> 0]
\* PipeWriter::new(handle)
NewWriter(handle) == [st |-> "live", h |-> handle]

NextReader == CHOOSE r \in Readers : readers[r].st = "none" /\ \A q \in Readers : readers[q].st = "none" => r <= q
NextWriter == CHOOSE w \in Writers : writers[w].st = "none" /\ \A q \in Writers : writers[q].st = "none" => w <= q

\* Wrappers built directly on the master handles, as File::from_raw_handle over
\* self.input / self.output would be.
input_handle_master(hs, p, owner) == [ok |-> TRUE, h |-> p.input, hs |-> hs]
output_handle_master(hs, p, owner) == [ok |-> TRUE, h |-> p.output, hs |-> hs]

\* The handle Process::input wraps: clone_handle(self.input)?
input_handle(hs, p, owner) == clone_handle(hs, p.input, owner, owner)
\* The handle Process::output wraps: clone_handle(self.output)?
output_handle(hs, p, owner) == clone_handle(hs, p.output, owner, owner)

\* Process::input(&mut self) -> Result<PipeWriter, Error>
ProcessInput ==
    /\ phase = "live"
    /\ \E w \in Writers : writers[w].st = "none"
    /\ LET w == NextWriter
           d == input_handle(handles, proc, WOwner(w))
       IN  /\ handles' = d.hs
           /\ writers' = IF d.ok THEN [writers EXCEPT ![w] = NewWriter(d.h)] ELSE writers
           /\ ret' = Ret("input", w, IF d.ok THEN "Ok" ELSE "Err", 0, <<>>, <<>>, "none")
    /\ UNCHANGED <<stdin, files, phase, proc, con, attr, tlog, readers, outBuf, produced, inBuf, inEnded,
                   nowait, child, panicked>>

\* Process::output(&mut self) -> Result<PipeReader, Error>
ProcessOutput ==
    /\ phase = "live"
    /\ \E r \in Readers : readers[r].st = "none"
    /\ LET r == NextReader
           d == output_handle(handles, proc, ROwner(r))
       IN  /\ handles' = d.hs
           /\ readers' = IF d.ok THEN [readers EXCEPT ![r] = NewReader(d.h)] ELSE readers
           /\ ret' = Ret("output", r, IF d.ok THEN "Ok" ELSE "Err", 0, <<>>, <<>>, "none")
    /\ UNCHANGED <<stdin, files, phase, proc, con, attr, tlog, writers, outBuf, produced, inBuf, inEnded,
                   nowait, child, panicked>>

\* A try_clone whose reader starts in the mode of the reader it was cloned from.
try_clone_same_mode(self, cloned) == [NewReader(cloned) EXCEPT !.blocking = self.blocking]

\* PipeReader::try_clone(&self), the reader built from the duplicate: .map(Self::new)
try_clone(self, cloned) == NewReader(cloned)

\* PipeReader::try_clone(&self): clone_handle(self.handle).map(Self::new), with
\* DuplicateHandle failing on the open handle when fault is TRUE.
ReaderTryCloneWith(src, fault) ==
    /\ readers[src].st = "live" /\ readers[src].pc = "idle"
    /\ \E r \in Readers : readers[r].st = "none"
    /\ LET r == NextReader
           d == IF fault THEN [ok |-> FALSE, h |-> NullHandle, hs |-> handles]
                ELSE clone_handle(handles, readers[src].h, ROwner(r), ROwner(r))
       IN  /\ handles' = d.hs
           /\ readers' = IF d.ok THEN [readers EXCEPT ![r] = try_clone(readers[src], d.h)]
                         ELSE readers
           /\ ret' = Ret("reader_try_clone", r, IF d.ok THEN "Ok" ELSE "Err", 0, <<src>>, <<>>,
                         IF fault THEN "DuplicateHandle" ELSE "none")
    /\ UNCHANGED <<stdin, files, phase, proc, con, attr, tlog, writers, outBuf, produced, inBuf, inEnded,
                   nowait, child, panicked>>

\* PipeReader::try_clone(&self) with DuplicateHandle succeeding on an open handle.
ReaderTryClone(src) == ReaderTryCloneWith(src, FALSE)

\* PipeWriter::try_clone(&self)
WriterTryClone(src) ==
    /\ writers[src].st = "live"
    /\ \E w \in Writers : writers[w].st = "none"
    /\ LET w == NextWriter
           d == clone_handle(handles, writers[src].h, WOwner(w), WOwner(w))
       IN  /\ handles' = d.hs
           /\ writers' = IF d.ok THEN [writers EXCEPT ![w] = NewWriter(d.h)] ELSE writers
           /\ ret' = Ret("writer_try_clone", w, IF d.ok THEN "Ok" ELSE "Err", 0, <<src>>, <<>>, "none")
    /\ UNCHANGED <<stdin, files, phase, proc, con, attr, tlog, readers, outBuf, produced, inBuf, inEnded,
                   nowait, child, panicked>>

\* PipeReader::new(handle) called with the handle value that the reader src
\* holds: new takes any HANDLE and duplicates nothing.
PipeReaderNew(src) ==
    /\ readers[src].st = "live" /\ readers[src].pc = "idle"
    /\ \E r \in Readers : readers[r].st = "none"
    /\ readers' = [readers EXCEPT ![NextReader] = NewReader(readers[src].h)]
    /\ ret' = Ret("PipeReader::new", NextReader, "Ok", 0, <<src>>, <<>>, "none")
    /\ UNCHANGED <<stdin, files, phase, handles, proc, con, attr, tlog, writers, outBuf,
                   produced, inBuf, inEnded, nowait, child, panicked>>

\* PipeWriter::new(handle) called with the handle value that the writer src holds.
PipeWriterNew(src) ==
    /\ writers[src].st = "live"
    /\ \E w \in Writers : writers[w].st = "none"
    /\ writers' = [writers EXCEPT ![NextWriter] = NewWriter(writers[src].h)]
    /\ ret' = Ret("PipeWriter::new", NextWriter, "Ok", 0, <<src>>, <<>>, "none")
    /\ UNCHANGED <<stdin, files, phase, handles, proc, con, attr, tlog, readers, outBuf,
                   produced, inBuf, inEnded, nowait, child, panicked>>

\* A mode switch that reaches every reader.
set_blocking_all(rs, r, on) == [q \in Readers |-> [rs[q] EXCEPT !.blocking = on]]

\* PipeReader::blocking(&mut self, on): self.blocking = on
set_blocking(rs, r, on) == [rs EXCEPT ![r].blocking = on]

ReaderBlocking(r, on) ==
    /\ readers[r].st = "live" /\ readers[r].pc = "idle"
    /\ readers[r].blocking # on
    /\ readers' = set_blocking(readers, r, on)
    /\ ret' = NoRet
    /\ UNCHANGED <<stdin, files, phase, handles, proc, con, attr, tlog, writers, outBuf, produced, inBuf,
                   inEnded, nowait, child, panicked>>

\* impl Drop for PipeReader: CloseHandle(self.handle).ok().unwrap()
DropReader(r) ==
    /\ readers[r].st = "live" /\ readers[r].pc = "idle"
    /\ handles' = CloseHandle(handles, readers[r].h, ROwner(r))
    /\ panicked' = (panicked \/ ~CloseHandleOk(handles, readers[r].h))
    /\ readers' = [readers EXCEPT ![r].st = "dropped"]
    /\ ret' = NoRet
    /\ UNCHANGED <<stdin, files, phase, proc, con, attr, tlog, writers, outBuf, produced, inBuf, inEnded,
                   nowait, child>>

\* impl Drop for PipeWriter: CloseHandle(self.handle).ok().unwrap()
DropWriter(w) ==
    /\ writers[w].st = "live"
    /\ handles' = CloseHandle(handles, writers[w].h, WOwner(w))
    /\ panicked' = (panicked \/ ~CloseHandleOk(handles, writers[w].h))
    /\ writers' = [writers EXCEPT ![w].st = "dropped"]
    /\ ret' = NoRet
    /\ UNCHANGED <<stdin, files, phase, proc, con, attr, tlog, readers, outBuf, produced, inBuf, inEnded,
                   nowait, child>>


\* --------------------------------------------------------------------- I/O
\* pipe_available_bytes(h): PeekNamedPipe(h, None, 0, None, Some(bytes_ptr), None)?
pipe_available_bytes(hs, c, buf, h) == PeekNamedPipe(hs, c, buf, h)

\* A read_from_pipe that returns the BOOL of ReadFile as the count.
read_from_pipe_bool(res) ==
    IF res.st = "Ok" THEN [kind |-> "Ok", n |-> 1, err |-> "none"]
    ELSE [kind |-> "Err", n |-> 0, err |-> res.err]

\* A read_from_pipe that drops the result of ReadFile and returns Ok(n).
read_from_pipe_unchecked(res) == [kind |-> "Ok", n |-> res.n, err |-> "none"]

\* A read_from_pipe that reports a broken pipe as end of file, Ok(0).
read_from_pipe_eof(res) ==
    IF res.st = "Ok" \/ res.err = "BrokenPipe" THEN [kind |-> "Ok", n |-> res.n, err |-> "none"]
    ELSE [kind |-> "Err", n |-> 0, err |-> res.err]

\* read_from_pipe(h, buf): ReadFile(h, Some(buf), Some(&mut n), None)?; Ok(n)
read_from_pipe(res) ==
    IF res.st = "Ok" THEN [kind |-> "Ok", n |-> res.n, err |-> "none"]
    ELSE [kind |-> "Err", n |-> 0, err |-> res.err]

\* write_to_pipe(h, buf): WriteFile(h, Some(buf), Some(&mut n), None)?; Ok(n)
write_to_pipe(res) ==
    IF res.st = "Ok" THEN [kind |-> "Ok", n |-> res.n, err |-> "none"]
    ELSE [kind |-> "Err", n |-> 0, err |-> res.err]

\* A read_pipe that goes on to ReadFile whatever the availability check counted.
read_pipe_check_always(pk) == IF ~pk.ok THEN "Err" ELSE "read"

\* What read_pipe does with the availability check of a non-blocking read:
\* "Err" (the check failed), "WouldBlock" (zero bytes), or "read".
read_pipe_check(pk) ==
    IF ~pk.ok THEN "Err" ELSE IF pk.n = 0 THEN "WouldBlock" ELSE "read"

\* read_pipe(h, buf, false), up to read_from_pipe: the availability check.
ReadCheck(r) ==
    /\ readers[r].st = "live" /\ readers[r].pc = "idle" /\ ~readers[r].blocking
    /\ LET pk == pipe_available_bytes(handles, con, outBuf, readers[r].h)
           todo == read_pipe_check(pk)
       IN  /\ readers' = IF todo = "read"
                         THEN [readers EXCEPT ![r].pc = "reading", ![r].avail = pk.n]
                         ELSE readers
           /\ ret' = IF todo = "read" THEN NoRet
                     ELSE Ret("read", r, todo, 0, <<FALSE, pk.n>>, <<>>, pk.err)
    /\ UNCHANGED <<stdin, files, phase, handles, proc, con, attr, tlog, writers, outBuf, produced, inBuf,
                   inEnded, nowait, child, panicked>>

\* A mode kept per handle: only the reader that set it reads without waiting.
StreamNoWaitOwn(nw, r) == r \in nw

\* set_non_blocking_mode puts the stream object itself into non-blocking mode:
\* every handle duplicated from it reads in that mode.
StreamNoWait(nw, r) == nw # {}

\* How a read that found no data is reported in that mode.
nowait_read_kind(k) ==
    IF k.kind = "Err" /\ k.err = "NoData" THEN "WouldBlock" ELSE k.kind

\* read_pipe(h, buf, blocking), from read_from_pipe on: the ReadFile call returns.
ReadReturn(r, len) ==
    /\ readers[r].st = "live"
    /\ \/ readers[r].blocking /\ readers[r].pc = "idle"
       \/ readers[r].pc = "reading"
    /\ LET res == ReadFile(handles, con, outBuf, StreamNoWait(nowait, r), readers[r].h, len)
           k == read_from_pipe(res)
       IN  /\ res.st # "Pending"
           /\ outBuf' = SubSeq(outBuf, res.n + 1, Len(outBuf))
           /\ ret' = Ret("read", r, nowait_read_kind(k), k.n,
                         <<readers[r].blocking, readers[r].avail>>,
                         SubSeq(outBuf, 1, k.n), k.err)
           /\ readers' = [readers EXCEPT ![r].pc = "idle", ![r].avail = 0]
    /\ UNCHANGED <<stdin, files, phase, handles, proc, con, attr, tlog, writers, produced, inBuf, inEnded,
                   nowait, child, panicked>>

\* PipeReader::set_non_blocking_mode(&mut self)
SetNonBlockingMode(r) ==
    /\ readers[r].st = "live" /\ readers[r].pc = "idle"
    /\ r \notin nowait
    /\ nowait' = nowait \cup {r}
    /\ ret' = Ret("set_non_blocking_mode", r, "Ok", 0, <<>>, <<>>, "none")
    /\ UNCHANGED <<stdin, files, phase, handles, proc, con, attr, tlog, readers, writers, outBuf, produced,
                   inBuf, inEnded, child, panicked>>

\* impl Write for PipeWriter: write(&mut self, buf)
Write(w, len) ==
    /\ writers[w].st = "live"
    /\ LET res == WriteFile(handles, con, inBuf, writers[w].h, len)
           k == write_to_pipe(res)
       IN  /\ res.st # "Pending"
           /\ inBuf' = inBuf + res.n
           /\ ret' = Ret("write", w, k.kind, k.n, <<len>>, <<>>, k.err)
    /\ UNCHANGED <<stdin, files, phase, handles, proc, con, attr, tlog, readers, writers, outBuf, produced,
                   inEnded, nowait, child, panicked>>

\* ------------------------------------------------------------------- files
\* A std::fs::File owns the handle it was built from: its drop closes the
\* handle and ignores the result.
\* impl From<PipeReader> for std::fs::File (io/reader.rs): the reader is
\* wrapped in ManuallyDrop, so its drop never runs.
FileFromPipeReader(r) ==
    /\ readers[r].st = "live" /\ readers[r].pc = "idle"
    /\ files[readers[r].h] < MaxFiles
    /\ files' = [files EXCEPT ![readers[r].h] = @ + 1]
    /\ readers' = [readers EXCEPT ![r].st = "consumed"]
    /\ ret' = Ret("File::from", r, "Ok", 0, <<readers[r].h>>, <<>>, "none")
    /\ UNCHANGED <<stdin, phase, handles, proc, con, attr, tlog, writers, outBuf, produced,
                   inBuf, inEnded, nowait, child, panicked>>

\* impl From<PipeWriter> for std::fs::File (io/writer.rs)
FileFromPipeWriter(w) ==
    /\ writers[w].st = "live"
    /\ files[writers[w].h] < MaxFiles
    /\ files' = [files EXCEPT ![writers[w].h] = @ + 1]
    /\ writers' = [writers EXCEPT ![w].st = "consumed"]
    /\ ret' = Ret("File::from", w, "Ok", 0, <<writers[w].h>>, <<>>, "none")
    /\ UNCHANGED <<stdin, phase, handles, proc, con, attr, tlog, readers, outBuf, produced,
                   inBuf, inEnded, nowait, child, panicked>>

\* impl Into<std::fs::File> for PipeReader (io.rs): File::from_raw_handle over
\* self.handle, then self goes out of scope and Drop for PipeReader runs.
PipeReaderIntoFile(r) ==
    /\ readers[r].st = "live" /\ readers[r].pc = "idle"
    /\ files[readers[r].h] < MaxFiles
    /\ files' = [files EXCEPT ![readers[r].h] = @ + 1]
    /\ handles' = CloseHandle(handles, readers[r].h, ROwner(r))
    /\ panicked' = (panicked \/ ~CloseHandleOk(handles, readers[r].h))
    /\ readers' = [readers EXCEPT ![r].st = "consumed"]
    /\ ret' = Ret("into", r, "Ok", 0, <<readers[r].h>>, <<>>, "none")
    /\ UNCHANGED <<stdin, phase, proc, con, attr, tlog, writers, outBuf, produced,
                   inBuf, inEnded, nowait, child>>

\* impl Into<std::fs::File> for PipeWriter (io.rs)
PipeWriterIntoFile(w) ==
    /\ writers[w].st = "live"
    /\ files[writers[w].h] < MaxFiles
    /\ files' = [files EXCEPT ![writers[w].h] = @ + 1]
    /\ handles' = CloseHandle(handles, writers[w].h, WOwner(w))
    /\ panicked' = (panicked \/ ~CloseHandleOk(handles, writers[w].h))
    /\ writers' = [writers EXCEPT ![w].st = "consumed"]
    /\ ret' = Ret("into", w, "Ok", 0, <<writers[w].h>>, <<>>, "none")
    /\ UNCHANGED <<stdin, phase, proc, con, attr, tlog, readers, outBuf, produced,
                   inBuf, inEnded, nowait, child>>

\* The handle value a duplication would return: one not yet in the table.
FreshHandle(hs) == CHOOSE h \in Handles \ (SpawnHandles \cup ConoutHandles) : hs[h].obj = "none"

\* A pty_input that wraps a duplicate of the master handle.
pty_input_handle_cloned(hs, p) ==
    clone_handle(hs, p.pty_input, FreshHandle(hs), "File")

\* Proc::pty_input: File::from_raw_handle(self.pty_input.0)
pty_input_handle(hs, p) == [ok |-> TRUE, h |-> p.pty_input, hs |-> hs]

\* Proc::pty_output: File::from_raw_handle(self.pty_output.0)
pty_output_handle(hs, p) == [ok |-> TRUE, h |-> p.pty_output, hs |-> hs]

\* The fields of Proc that hold the endpoints.
ProcEndpoints == [pty_input |-> proc.input, pty_output |-> proc.output]

\* Proc::pty_input(&self) -> io::Result<File>
ProcPtyInput ==
    /\ phase = "live"
    /\ LET d == pty_input_handle(handles, ProcEndpoints)
       IN  /\ files[d.h] < MaxFiles
           /\ handles' = d.hs
           /\ files' = [files EXCEPT ![d.h] = @ + 1]
           /\ ret' = Ret("pty_input", 0, "Ok", 0, <<d.h>>, <<>>, "none")
    /\ UNCHANGED <<stdin, phase, proc, con, attr, tlog, readers, writers, outBuf, produced,
                   inBuf, inEnded, nowait, child, panicked>>

\* Proc::pty_output(&self) -> io::Result<File>
ProcPtyOutput ==
    /\ phase = "live"
    /\ LET d == pty_output_handle(handles, ProcEndpoints)
       IN  /\ files[d.h] < MaxFiles
           /\ handles' = d.hs
           /\ files' = [files EXCEPT ![d.h] = @ + 1]
           /\ ret' = Ret("pty_output", 0, "Ok", 0, <<d.h>>, <<>>, "none")
    /\ UNCHANGED <<stdin, phase, proc, con, attr, tlog, readers, writers, outBuf, produced,
                   inBuf, inEnded, nowait, child, panicked>>

\* File::write(buf) on a File that holds handle h: WriteFile(h, buf, &n).
FileWrite(h, len) ==
    /\ files[h] > 0
    /\ LET res == WriteFile(handles, con, inBuf, h, len)
       IN  /\ res.st # "Pending"
           /\ inBuf' = inBuf + res.n
           /\ ret' = Ret("file_write", 0, IF res.st = "Ok" THEN "Ok" ELSE "Err", res.n,
                         <<h, len>>, <<>>, res.err)
    /\ UNCHANGED <<stdin, files, phase, handles, proc, con, attr, tlog, readers, writers,
                   outBuf, produced, inEnded, nowait, child, panicked>>

\* Drop of a File that holds handle h: CloseHandle(h), the result ignored.
DropFile(h) ==
    /\ files[h] > 0
    /\ files' = [files EXCEPT ![h] = @ - 1]
    /\ handles' = CloseHandle(handles, h, "File")
    /\ ret' = Ret("file_drop", 0, "none", 0, <<h>>, <<>>, "none")
    /\ UNCHANGED <<stdin, phase, proc, con, attr, tlog, readers, writers, outBuf, produced,
                   inBuf, inEnded, nowait, child, panicked>>

\* ------------------------------------------------- console host and child
\* The console host reads the input pipe; with the pipe empty and every write
\* handle closed its read ends with the stream-ended condition.
ConRead ==
    /\ con.st = "open"
    /\ \/ inBuf > 0
       \/ ~InWriteEndOpen(handles) /\ ~inEnded
    /\ inBuf' = IF inBuf > 0 THEN inBuf - 1 ELSE inBuf
    /\ inEnded' = (inBuf = 0)
    /\ UNCHANGED <<stdin, files, phase, handles, proc, con, attr, tlog, readers, writers, outBuf, produced,
                   nowait, child, panicked>>
    /\ ret' = NoRet

\* The child writes to its console; the console host forwards to the output pipe.
ChildWrite ==
    /\ child.st = "Running" /\ con.st = "open"
    /\ produced < MaxBytes
    /\ produced' = produced + 1
    /\ outBuf' = Append(outBuf, produced + 1)
    /\ UNCHANGED <<stdin, files, phase, handles, proc, con, attr, tlog, readers, writers, inBuf, inEnded,
                   nowait, child, panicked>>
    /\ ret' = NoRet

\* The child exits by itself.
ChildExit(code) ==
    /\ child.st = "Running" /\ child.kill = <<>>
    /\ child' = [child EXCEPT !.st = "Exited", !.code = code]
    /\ UNCHANGED <<stdin, files, phase, handles, proc, con, attr, tlog, readers, writers, outBuf, produced,
                   inBuf, inEnded, nowait, panicked>>
    /\ ret' = NoRet

\* A termination requested by TerminateProcess completes.
ChildTerminated ==
    /\ child.st = "Running" /\ child.kill # <<>>
    /\ child' = [child EXCEPT !.st = "Exited", !.code = child.kill[1]]
    /\ UNCHANGED <<stdin, files, phase, handles, proc, con, attr, tlog, readers, writers, outBuf, produced,
                   inBuf, inEnded, nowait, panicked>>
    /\ ret' = NoRet


\* ------------------------------------------------------------ Process calls
INFINITE == U32Max

\* WaitForSingleObject(proc, ms); `fault` is a wait the system fails.
WaitForSingleObject(hs, h, ch, ms, fault) ==
    IF fault \/ ~IsOpen(hs, h) THEN "WAIT_FAILED"
    ELSE IF ch.st = "Exited" THEN "WAIT_OBJECT_0"
    ELSE IF ms = INFINITE THEN "Pending"
    ELSE "WAIT_TIMEOUT"

\* GetExitCodeProcess(proc, &mut code)
GetExitCodeProcess(hs, h, ch, fault) ==
    IF fault \/ ~IsOpen(hs, h) THEN [ok |-> FALSE, code |-> 0]
    ELSE [ok |-> TRUE, code |-> IF ch.st = "Exited" THEN ch.code ELSE STILL_ACTIVE]

\* A wait_process that treats the outcome of wait(None) as it treats the
\* outcome of a timed wait.
wait_outcome_one_branch(timeout_millis, result) ==
    IF result = "Pending" THEN "Pending"
    ELSE IF result = "WAIT_TIMEOUT" THEN "Timeout" ELSE "code"

\* wait_process(proc, timeout_millis): what it does with the outcome of the
\* native wait: "Timeout", "WaitFailed", "Pending" or "code" (go on to the exit code).
wait_outcome(timeout_millis, result) ==
    IF result = "Pending" THEN "Pending"
    ELSE IF timeout_millis # <<>>
         THEN IF result = "WAIT_TIMEOUT" THEN "Timeout" ELSE "code"
         ELSE IF result = "WAIT_OBJECT_0" THEN "code" ELSE "WaitFailed"

\* A wait_process that returns its `code` variable without the exit-code query.
wait_process_no_query(hs, h, ch, timeout_millis, faultWait, faultCode) ==
    LET ms == IF timeout_millis # <<>> THEN timeout_millis[1] ELSE INFINITE
        result == WaitForSingleObject(hs, h, ch, ms, faultWait)
        todo == wait_outcome(timeout_millis, result)
    IN  IF todo = "Pending" THEN [kind |-> "Pending", n |-> 0, err |-> result]
        ELSE IF todo = "Timeout" THEN [kind |-> "Timeout", n |-> ms, err |-> result]
        ELSE IF todo = "WaitFailed" THEN [kind |-> "WaitFailed", n |-> 0, err |-> result]
        ELSE [kind |-> "Ok", n |-> 0, err |-> result]

wait_process(hs, h, ch, timeout_millis, faultWait, faultCode) ==
    LET ms == IF timeout_millis # <<>> THEN timeout_millis[1] ELSE INFINITE
        result == WaitForSingleObject(hs, h, ch, ms, faultWait)
        todo == wait_outcome(timeout_millis, result)
        code == GetExitCodeProcess(hs, h, ch, faultCode)
    IN  IF todo = "Pending" THEN [kind |-> "Pending", n |-> 0, err |-> result]
        ELSE IF todo = "Timeout" THEN [kind |-> "Timeout", n |-> ms, err |-> result]
        ELSE IF todo = "WaitFailed" THEN [kind |-> "WaitFailed", n |-> 0, err |-> result]
        ELSE IF ~code.ok THEN [kind |-> "Win", n |-> 0, err |-> result]
        ELSE [kind |-> "Ok", n |-> code.code, err |-> result]

\* Process::wait(&self, timeout_millis)
Wait(timeout_millis, faultWait, faultCode) ==
    /\ phase = "live"
    /\ LET k == wait_process(handles, proc.hProcess, child, timeout_millis, faultWait, faultCode)
       IN  /\ k.kind # "Pending"
           /\ ret' = Ret("wait", 0, k.kind, k.n, timeout_millis, <<>>, k.err)
    /\ UNCHANGED <<stdin, files, phase, handles, proc, con, attr, tlog, readers, writers, outBuf, produced,
                   inBuf, inEnded, nowait, child, panicked>>

\* An is_process_alive that tests for the signalled outcome.
is_process_alive_signalled(hs, h, ch, fault) ==
    WaitForSingleObject(hs, h, ch, 0, fault) = "WAIT_OBJECT_0"

\* is_process_alive(proc): WaitForSingleObject(proc, 0) == WAIT_TIMEOUT
is_process_alive(hs, h, ch, fault) == WaitForSingleObject(hs, h, ch, 0, fault) = "WAIT_TIMEOUT"

\* Process::is_alive(&self)
IsAlive(fault) ==
    /\ phase = "live"
    /\ ret' = Ret("is_alive", 0, IF is_process_alive(handles, proc.hProcess, child, fault)
                                  THEN "true" ELSE "false",
                  0, <<>>, <<>>, IF fault THEN "WAIT_FAILED" ELSE "none")
    /\ UNCHANGED <<stdin, files, phase, handles, proc, con, attr, tlog, readers, writers, outBuf, produced,
                   inBuf, inEnded, nowait, child, panicked>>

\* TerminateProcess(proc, code): fails on a process that has exited or is
\* already being terminated; otherwise it requests the termination with that
\* exit code and returns.
TerminateProcessOk(hs, h, ch) == IsOpen(hs, h) /\ ch.st = "Running" /\ ch.kill = <<>>

\* A kill_process whose exit code replaces that of a process that has exited.
kill_process_exited(hs, h, ch, code) ==
    IF IsOpen(hs, h) /\ ch.st = "Exited"
    THEN [ok |-> TRUE, child |-> [ch EXCEPT !.code = code]]
    ELSE IF TerminateProcessOk(hs, h, ch)
    THEN [ok |-> TRUE, child |-> [ch EXCEPT !.kill = <<code>>]]
    ELSE [ok |-> FALSE, child |-> ch]

\* A kill_process that terminates the child with exit code 0 whatever it is given.
kill_process_zero(hs, h, ch, code) ==
    IF TerminateProcessOk(hs, h, ch)
    THEN [ok |-> TRUE, child |-> [ch EXCEPT !.kill = <<0>>]]
    ELSE [ok |-> FALSE, child |-> ch]

\* kill_process(proc, code): TerminateProcess(proc, code)?; Ok(())
kill_process(hs, h, ch, code) ==
    IF TerminateProcessOk(hs, h, ch)
    THEN [ok |-> TRUE, child |-> [ch EXCEPT !.kill = <<code>>]]
    ELSE [ok |-> FALSE, child |-> ch]

\* Process::exit(&mut self, code): kill_process(self._proc.hProcess, code)
Exit(code) ==
    /\ phase = "live"
    /\ LET k == kill_process(handles, proc.hProcess, child, code)
       IN  /\ child' = k.child
           /\ ret' = Ret("exit", 0, IF k.ok THEN "Ok" ELSE "Err", 0, <<code>>, <<>>, "none")
    /\ UNCHANGED <<stdin, files, phase, handles, proc, con, attr, tlog, readers, writers, outBuf, produced,
                   inBuf, inEnded, nowait, panicked>>

\* The sizes given to resize: <<columns, rows>>, both positive.
ResizeSizes == {<<3, 2>>, <<9, 4>>}

\* ResizePseudoConsole(console, size) on the console object c.
ResizePseudoConsole(c, size) ==
    IF c.st = "open" THEN [ok |-> TRUE, con |-> [c EXCEPT !.size = size]]
    ELSE [ok |-> FALSE, con |-> c]

\* A resize_console that passes rows for columns and columns for rows.
resize_console_swapped(c, x, y) == ResizePseudoConsole(c, <<y, x>>)

\* resize_console(console, x, y): ResizePseudoConsole(console, COORD { X: x, Y: y })?
resize_console(c, x, y) == ResizePseudoConsole(c, <<x, y>>)

\* Process::resize(&mut self, x, y)
Resize(x, y) ==
    /\ phase = "live"
    /\ LET k == resize_console(con, x, y)
       IN  /\ con' = k.con
           /\ ret' = Ret("resize", 0, IF k.ok THEN "Ok" ELSE "Err", 0, <<x, y>>, <<>>, "none")
    /\ UNCHANGED <<stdin, files, phase, handles, proc, attr, tlog, readers, writers, outBuf, produced,
                   inBuf, inEnded, nowait, child, panicked>>

\* GetProcessId(h): the identifier of the process behind the handle, 0 on failure.
GetProcessId(hs, h, p) ==
    IF IsOpen(hs, h) /\ hs[h].obj = "process" THEN p.pid ELSE 0

\* A get_process_pid that asks with the thread handle of PROCESS_INFORMATION.
get_process_pid_thread(hs, p) == GetProcessId(hs, p.hThread, p)

\* get_process_pid(proc): GetProcessId(proc)
get_process_pid(hs, p) == GetProcessId(hs, p.hProcess, p)

\* Process::pid(&self)
Pid ==
    /\ phase = "live"
    /\ ret' = Ret("pid", 0, "Ok", get_process_pid(handles, proc), <<>>, <<>>, "none")
    /\ UNCHANGED <<stdin, files, phase, handles, proc, con, attr, tlog, readers, writers, outBuf, produced,
                   inBuf, inEnded, nowait, child, panicked>>

\* ---------------------------------------------------------------- teardown
\* A drop that closes the master endpoints before the pseudo console.
TeardownStepsEndpointsFirst ==
    << "CloseHandle(input)", "CloseHandle(output)", "ClosePseudoConsole",
       "CloseHandle(hProcess)", "CloseHandle(hThread)",
       "DeleteProcThreadAttributeList", "Box::from_raw(lpAttributeList)" >>

\* A drop that leaves the pseudo console open.
TeardownStepsKeepConsole ==
    << "CloseHandle(hProcess)", "CloseHandle(hThread)",
       "DeleteProcThreadAttributeList", "Box::from_raw(lpAttributeList)",
       "CloseHandle(input)", "CloseHandle(output)" >>

\* A drop that closes the input endpoint twice and the output endpoint never.
TeardownStepsInputTwice ==
    << "ClosePseudoConsole", "CloseHandle(hProcess)", "CloseHandle(hThread)",
       "DeleteProcThreadAttributeList", "Box::from_raw(lpAttributeList)",
       "CloseHandle(input)", "CloseHandle(input)" >>

\* impl Drop for Process: the calls of drop, in the order the code makes them.
TeardownSteps ==
    << "ClosePseudoConsole",
       "CloseHandle(hProcess)",
       "CloseHandle(hThread)",
       "DeleteProcThreadAttributeList",
       "Box::from_raw(lpAttributeList)",
       "CloseHandle(input)",
       "CloseHandle(output)" >>

\* The calls of drop that return a result: a CloseHandle can fail.
TeardownCloses ==
    {"CloseHandle(hProcess)", "CloseHandle(hThread)", "CloseHandle(input)",
     "CloseHandle(output)"}
\* The call of drop that the system fails, if any.
TeardownFaults == {"none"} \cup TeardownCloses

\* A drop that unwraps the result of each close.
close_failed_unwrap == "panic"

\* let _ = CloseHandle(..): what drop does with a close that failed.
close_failed == "ignore"

\* One call of drop on the resources [hs, con, attr, log]; the call named by
\* st.fault fails and leaves its handle as it was.
TeardownCall(st, s, p) ==
    IF s = st.fault
    THEN [st EXCEPT !.log = Append(@, s), !.panicked = @ \/ close_failed = "panic"]
    ELSE
    [hs |-> IF s = "CloseHandle(hProcess)" THEN CloseHandle(st.hs, p.hProcess, "Process")
            ELSE IF s = "CloseHandle(hThread)" THEN CloseHandle(st.hs, p.hThread, "Process")
            ELSE IF s = "CloseHandle(input)" THEN CloseHandle(st.hs, p.input, "Process")
            ELSE IF s = "CloseHandle(output)" THEN CloseHandle(st.hs, p.output, "Process")
            ELSE st.hs,
     con |-> IF s = "ClosePseudoConsole"
             THEN [st.con EXCEPT !.st = "closed", !.closes = IF @ < 2 THEN @ + 1 ELSE @]
             ELSE st.con,
     attr |-> IF s = "DeleteProcThreadAttributeList" THEN [st.attr EXCEPT !.st = "deleted"]
              ELSE IF s = "Box::from_raw(lpAttributeList)"
                   THEN [st.attr EXCEPT !.st = "freed", !.frees = IF @ < 2 THEN @ + 1 ELSE @]
              ELSE st.attr,
     log |-> Append(st.log, s),
     fault |-> st.fault,
     panicked |-> st.panicked]

\* The calls of drop from call i on; a panic ends the sequence.
RECURSIVE Teardown(_, _, _, _)
Teardown(st, steps, i, p) ==
    IF i > Len(steps) \/ st.panicked THEN st
    ELSE Teardown(TeardownCall(st, steps[i], p), steps, i + 1, p)

\* impl Drop for Process: drop(&mut self), with the close call `fault` failing.
DropProcessWith(fault) ==
    /\ phase = "live"
    /\ LET st == Teardown([hs |-> handles, con |-> con, attr |-> attr, log |-> tlog,
                           fault |-> fault, panicked |-> FALSE],
                          TeardownSteps, 1, proc)
       IN  /\ handles' = st.hs
           /\ con' = st.con
           /\ attr' = st.attr
           /\ tlog' = st.log
           /\ panicked' = (panicked \/ st.panicked)
    /\ phase' = "dropped"
    /\ ret' = IF fault = "none" THEN NoRet
              ELSE Ret("drop", 0, "none", 0, <<>>, <<>>, fault)
    /\ UNCHANGED <<stdin, files, proc, readers, writers, outBuf, produced, inBuf, inEnded,
                   nowait, child>>

\* impl Drop for Process: drop(&mut self), every call succeeding.
DropProcess == DropProcessWith("none")

\* ------------------------------------------------------------------- stdin
\* The records of a console input buffer: a key press, which a read of stdin
\* returns, and any other event (mouse, focus, key release), which it skips.
StdinRecords == {"key", "event"}

\* WaitForSingleObject(stdin, 0) on a console input handle: the handle is
\* signalled while unread records are in the input buffer.
WaitForStdin(q) == IF q # <<>> THEN "WAIT_OBJECT_0" ELSE "WAIT_TIMEOUT"

\* Console::is_stdin_empty: WaitForSingleObject(self.stdin, 0) == WAIT_OBJECT_0
is_stdin_empty(q) == WaitForStdin(q) = "WAIT_OBJECT_0"

\* util::is_stdin_not_empty: the same test on GetStdHandle(STD_INPUT_HANDLE)
is_stdin_not_empty(q) == WaitForStdin(q) = "WAIT_OBJECT_0"

\* The position of the first key press in the buffer, 0 if there is none.
FirstKey(q) ==
    IF \E i \in 1..Len(q) : q[i] = "key"
    THEN CHOOSE i \in 1..Len(q) : q[i] = "key" /\ \A j \in 1..(i - 1) : q[j] # "key"
    ELSE 0

\* The terminal puts a record into the input buffer.
StdinArrive(rec) ==
    /\ Len(stdin) < MaxStdin
    /\ stdin' = Append(stdin, rec)
    /\ ret' = NoRet
    /\ UNCHANGED <<files, phase, handles, proc, con, attr, tlog, readers, writers, outBuf,
                   produced, inBuf, inEnded, nowait, child, panicked>>

\* std::io::stdin().read(&mut buf) with a buffer of one byte, in raw mode: it
\* returns with the first key press and blocks while there is none.
StdinRead ==
    /\ FirstKey(stdin) # 0
    /\ stdin' = SubSeq(stdin, FirstKey(stdin) + 1, Len(stdin))
    /\ ret' = Ret("stdin_read", 0, "Ok", 1, <<>>, <<>>, "none")
    /\ UNCHANGED <<files, phase, handles, proc, con, attr, tlog, readers, writers, outBuf,
                   produced, inBuf, inEnded, nowait, child, panicked>>

\* Console::is_stdin_empty(&self) -> Result<bool, Error>
IsStdinEmpty ==
    /\ ret' = Ret("is_stdin_empty", 0, IF is_stdin_empty(stdin) THEN "true" ELSE "false",
                  0, <<>>, <<>>, WaitForStdin(stdin))
    /\ UNCHANGED <<stdin, files, phase, handles, proc, con, attr, tlog, readers, writers,
                   outBuf, produced, inBuf, inEnded, nowait, child, panicked>>

\* util::is_stdin_not_empty() -> io::Result<bool>
IsStdinNotEmpty ==
    /\ ret' = Ret("is_stdin_not_empty", 0,
                  IF is_stdin_not_empty(stdin) THEN "true" ELSE "false",
                  0, <<>>, <<>>, WaitForStdin(stdin))
    /\ UNCHANGED <<stdin, files, phase, handles, proc, con, attr, tlog, readers, writers,
                   outBuf, produced, inBuf, inEnded, nowait, child, panicked>>

\* ------------------------------------------------------------------ CONOUT$
\* The console mode flags the functions read and write.
ConsoleModes == SUBSET {"ENABLE_ECHO_INPUT", "ENABLE_LINE_INPUT"}

\* The native calls of enableVirtualTerminalSequenceProcessing, in order.
VtSteps == << "CreateFileW", "GetConsoleMode", "SetConsoleMode", "CloseHandle" >>
\* The native calls of inhirentConsoleSize, in order.
SizeSteps == << "CreateFileW", "GetConsoleScreenBufferInfo", "CloseHandle" >>
\* The native calls of console_stdout_set_echo, in order.
EchoSteps == << "CreateFileW", "GetConsoleMode", "SetConsoleMode", "CloseHandle" >>

\* fail = 0: every call succeeds; fail = k: call k fails and the function
\* returns its error with `?`. The CloseHandle of the handle just opened succeeds.
ConoutFailures(steps) == 0..(Len(steps) - 1)

ConoutPassed(steps, fail, name) == fail = 0 \/ StepIndex(steps, name) < fail

\* The handle value the next CreateFileW("CONOUT$") returns.
FreeConout(hs) ==
    CHOOSE h \in ConoutHandles :
        ~hs[h].open /\ \A g \in ConoutHandles : ~hs[g].open => ~(hs[g].closes < hs[h].closes)

\* stdout_handle(): CreateFileW("CONOUT$", ..) returns a new open handle.
stdout_handle(hs, h, owner) == PutHandle(hs, h, "CONOUT$", owner)

\* The handle table after a function that opens CONOUT$ with stdout_handle()?,
\* makes the calls of `steps` each followed by `?`, and closes the handle with
\* the last of them.
conout_handles(hs, h, owner, steps, fail) ==
    LET opened == stdout_handle(hs, h, owner)
    IN  IF ~ConoutPassed(steps, fail, "CreateFileW") THEN hs
        ELSE IF ConoutPassed(steps, fail, "CloseHandle") THEN CloseHandle(opened, h, owner)
        ELSE opened

ConoutErr(steps, fail) == IF fail = 0 THEN "none" ELSE steps[fail]

\* enableVirtualTerminalSequenceProcessing(): mode |= ENABLE_VIRTUAL_TERMINAL_PROCESSING
EnableVT(mode, fail) ==
    /\ phase = "init"
    /\ \E h \in ConoutHandles : ~handles[h].open
    /\ handles' = conout_handles(handles, FreeConout(handles),
                                 "enableVirtualTerminalSequenceProcessing", VtSteps, fail)
    /\ ret' = Ret("enableVirtualTerminalSequenceProcessing", 0,
                  IF fail = 0 THEN "Ok" ELSE "Err", 0, <<mode>>,
                  IF ConoutPassed(VtSteps, fail, "SetConsoleMode")
                  THEN <<mode \cup {"ENABLE_VIRTUAL_TERMINAL_PROCESSING"}>> ELSE <<>>,
                  ConoutErr(VtSteps, fail))
    /\ UNCHANGED <<stdin, files, phase, proc, con, attr, tlog, readers, writers, outBuf,
                   produced, inBuf, inEnded, nowait, child, panicked>>

\* inhirentConsoleSize()
InheritSize(w, fail) ==
    /\ phase = "init"
    /\ \E h \in ConoutHandles : ~handles[h].open
    /\ handles' = conout_handles(handles, FreeConout(handles), "inhirentConsoleSize",
                                 SizeSteps, fail)
    /\ ret' = Ret("inhirentConsoleSize", 0, IF fail = 0 THEN "Ok" ELSE "Err", 0, <<w>>,
                  IF fail = 0 THEN inhirentConsoleSize(w) ELSE <<>>,
                  ConoutErr(SizeSteps, fail))
    /\ UNCHANGED <<stdin, files, phase, proc, con, attr, tlog, readers, writers, outBuf,
                   produced, inBuf, inEnded, nowait, child, panicked>>

\* The mode console_stdout_set_echo(on) writes.
echo_mode(mode, on) ==
    IF on THEN mode \cup {"ENABLE_ECHO_INPUT", "ENABLE_LINE_INPUT"}
    ELSE mode \ {"ENABLE_ECHO_INPUT"}

\* Process::set_echo(&mut self, on): console_stdout_set_echo(on)
SetEcho(on, mode, fail) ==
    /\ phase = "live"
    /\ \E h \in ConoutHandles : ~handles[h].open
    /\ handles' = conout_handles(handles, FreeConout(handles), "console_stdout_set_echo",
                                 EchoSteps, fail)
    /\ ret' = Ret("set_echo", 0, IF fail = 0 THEN "Ok" ELSE "Err", 0, <<on, mode>>,
                  IF ConoutPassed(EchoSteps, fail, "SetConsoleMode")
                  THEN <<echo_mode(mode, on)>> ELSE <<>>,
                  ConoutErr(EchoSteps, fail))
    /\ UNCHANGED <<stdin, files, phase, proc, con, attr, tlog, readers, writers, outBuf,
                   produced, inBuf, inEnded, nowait, child, panicked>>

\* ------------------------------------------------------------ specification
Init ==
    /\ phase = "init"
    /\ handles = [h \in Handles |-> NoHandle]
    /\ proc = NoProc
    /\ con = [st |-> "none", size |-> <<0, 0>>, closes |-> 0]
    /\ attr = [st |-> "none", frees |-> 0]
    /\ tlog = <<>>
    /\ readers = [r \in Readers |-> NoReader]
    /\ writers = [w \in Writers |-> NoWriter]
    /\ outBuf = <<>>
    /\ produced = 0
    /\ inBuf = 0
    /\ inEnded = FALSE
    /\ nowait = {}
    /\ child = [st |-> "none", code |-> 0, kill |-> <<>>]
    /\ panicked = FALSE
    /\ stdin = <<>>
    /\ files = [h \in Handles |-> 0]
    /\ ret = NoRet

\* The calls and steps that change the state of the handles, the wrappers,
\* the pipes and the child.
Next ==
    \/ \E fail \in SpawnFailures : Spawn(<<>>, <<>>, fail)
    \/ ProcessInput
    \/ ProcessOutput
    \/ \E r \in Readers : ReaderTryClone(r)
    \/ \E w \in Writers : WriterTryClone(w)
    \/ \E r \in Readers, on \in BOOLEAN : ReaderBlocking(r, on)
    \/ \E r \in Readers : DropReader(r)
    \/ \E w \in Writers : DropWriter(w)
    \/ \E r \in Readers : ReadCheck(r)
    \/ \E r \in Readers, len \in 1..MaxBufLen : ReadReturn(r, len)
    \/ \E w \in Writers, len \in 0..1 : Write(w, len)
    \/ ConRead
    \/ ChildWrite
    \/ \E code \in ExitCodes : ChildExit(code)
    \/ ChildTerminated
    \/ \E code \in ExitCodes : Exit(code)
    \/ DropProcess

Spec == Init /\ [][Next]_vars

\* The life of the child seen through the Process: spawn, the readers and
\* writers handed out and dropped, the child's output, exit, and the calls
\* that query the child (wait, is_alive), which change nothing.
NextProc ==
    \/ \E fail \in SpawnFailures : Spawn(<<>>, <<>>, fail)
    \/ ProcessInput
    \/ ProcessOutput
    \/ \E r \in Readers : DropReader(r)
    \/ \E w \in Writers : DropWriter(w)
    \/ ChildWrite
    \/ \E code \in ExitCodes : ChildExit(code)
    \/ ChildTerminated
    \/ \E code \in ExitCodes : Exit(code)
    \/ \E t \in Timeouts, fw \in BOOLEAN, fc \in BOOLEAN : Wait(t, fw, fc)
    \/ \E f \in BOOLEAN : IsAlive(f)
    \/ DropProcess

SpecProc == Init /\ [][NextProc]_vars

\* A termination that TerminateProcess has requested completes.
SpecProcLive == SpecProc /\ WF_vars(ChildTerminated)

\* The Process spawned with every console-size input and its control calls:
\* resize and pid, next to output, the child's life and teardown.
NextCtl ==
    \/ \E opt \in SizeOptions, inherit \in InheritOutcomes, fail \in SpawnFailures :
          Spawn(opt, inherit, fail)
    \/ ProcessOutput
    \/ \E r \in Readers : DropReader(r)
    \/ ChildWrite
    \/ \E code \in ExitCodes : ChildExit(code)
    \/ ChildTerminated
    \/ \E code \in ExitCodes : Exit(code)
    \/ \E size \in ResizeSizes : Resize(size[1], size[2])
    \/ Pid
    \/ DropProcess

SpecCtl == Init /\ [][NextCtl]_vars

\* execProc's environment for every Command environment within the bounds.
InitEnv ==
    /\ phase = "init"
    /\ handles = [h \in Handles |-> NoHandle]
    /\ proc = NoProc
    /\ con = [st |-> "none", size |-> <<0, 0>>, closes |-> 0]
    /\ attr = [st |-> "none", frees |-> 0]
    /\ tlog = <<>>
    /\ readers = [r \in Readers |-> NoReader]
    /\ writers = [w \in Writers |-> NoWriter]
    /\ outBuf = <<>>
    /\ produced = 0
    /\ inBuf = 0
    /\ inEnded = FALSE
    /\ nowait = {}
    /\ child = [st |-> "none", code |-> 0, kill |-> <<>>]
    /\ panicked = FALSE
    /\ stdin = <<>>
    /\ files = [h \in Handles |-> 0]
    /\ \E e \in CommandEnvs : ret = Ret("Command", 0, "none", 0, e, <<>>, "none")

NextEnv == ExecProcEnv

SpecEnv == InitEnv /\ [][NextEnv]_vars

\* execProc's command line for every program and argument list within the bounds.
InitCmd ==
    /\ phase = "init"
    /\ handles = [h \in Handles |-> NoHandle]
    /\ proc = NoProc
    /\ con = [st |-> "none", size |-> <<0, 0>>, closes |-> 0]
    /\ attr = [st |-> "none", frees |-> 0]
    /\ tlog = <<>>
    /\ readers = [r \in Readers |-> NoReader]
    /\ writers = [w \in Writers |-> NoWriter]
    /\ outBuf = <<>>
    /\ produced = 0
    /\ inBuf = 0
    /\ inEnded = FALSE
    /\ nowait = {}
    /\ child = [st |-> "none", code |-> 0, kill |-> <<>>]
    /\ panicked = FALSE
    /\ stdin = <<>>
    /\ files = [h \in Handles |-> 0]
    /\ \E program \in CmdStrings, args \in CommandArgs :
          ret = Ret("CommandLine", 0, "none", 0, <<program, args>>, <<>>, "none")

NextCmd == ExecProcCommandLine

SpecCmd == InitCmd /\ [][NextCmd]_vars

\* Drops: the wrappers, wrappers built with new over a handle value already
\* wrapped, and the teardown of the Process with any one of its closes failing.
NextDrop ==
    \/ \E fail \in SpawnFailures : Spawn(<<>>, <<>>, fail)
    \/ ProcessInput
    \/ ProcessOutput
    \/ \E r \in Readers : PipeReaderNew(r)
    \/ \E w \in Writers : PipeWriterNew(w)
    \/ \E r \in Readers : DropReader(r)
    \/ \E w \in Writers : DropWriter(w)
    \/ \E code \in ExitCodes : ChildExit(code)
    \/ \E fault \in TeardownFaults : DropProcessWith(fault)

SpecDrop == Init /\ [][NextDrop]_vars

\* The readers of one Process: cloned, switched between the modes, reading
\* and dropped while the child writes.
NextRead ==
    \/ \E fail \in SpawnFailures : Spawn(<<>>, <<>>, fail)
    \/ ProcessOutput
    \/ \E r \in Readers : ReaderTryClone(r)
    \/ \E r \in Readers, on \in BOOLEAN : ReaderBlocking(r, on)
    \/ \E r \in Readers : DropReader(r)
    \/ \E r \in Readers : ReadCheck(r)
    \/ \E r \in Readers, len \in 1..MaxBufLen : ReadReturn(r, len)
    \/ ChildWrite
    \/ \E code \in ExitCodes : ChildExit(code)
    \/ DropProcess

SpecRead == Init /\ [][NextRead]_vars

\* The readers of one Process cloned from each other in either mode, with
\* DuplicateHandle succeeding or failing.
NextClone ==
    \/ \E fail \in SpawnFailures : Spawn(<<>>, <<>>, fail)
    \/ ProcessOutput
    \/ \E r \in Readers, fault \in BOOLEAN : ReaderTryCloneWith(r, fault)
    \/ \E r \in Readers, on \in BOOLEAN : ReaderBlocking(r, on)
    \/ \E r \in Readers : DropReader(r)
    \/ \E r \in Readers : ReadCheck(r)
    \/ \E r \in Readers, len \in 1..MaxBufLen : ReadReturn(r, len)
    \/ ChildWrite
    \/ DropProcess

SpecClone == Init /\ [][NextClone]_vars

\* The functions that open CONOUT$: the two that spawn_command calls first
\* and set_echo on the Process it returned, each with any one of its native
\* calls failing.
NextConout ==
    \/ \E mode \in ConsoleModes, fail \in ConoutFailures(VtSteps) : EnableVT(mode, fail)
    \/ \E w \in WindowRects, fail \in ConoutFailures(SizeSteps) : InheritSize(w, fail)
    \/ \E fail \in SpawnFailures : Spawn(<<>>, <<>>, fail)
    \/ \E on \in BOOLEAN, mode \in ConsoleModes, fail \in ConoutFailures(EchoSteps) :
          SetEcho(on, mode, fail)

SpecConout == Init /\ [][NextConout]_vars

\* The wrappers of a Process converted into std::fs::File, by the From
\* implementations of io/reader.rs and io/writer.rs and by the Into
\* implementations of io.rs.
NextFile ==
    \/ \E fail \in SpawnFailures : Spawn(<<>>, <<>>, fail)
    \/ ProcessInput
    \/ ProcessOutput
    \/ \E r \in Readers : FileFromPipeReader(r)
    \/ \E w \in Writers : FileFromPipeWriter(w)
    \/ \E r \in Readers : PipeReaderIntoFile(r)
    \/ \E w \in Writers : PipeWriterIntoFile(w)
    \/ \E h \in Handles, len \in 0..1 : FileWrite(h, len)
    \/ \E h \in Handles : DropFile(h)
    \/ \E r \in Readers : DropReader(r)
    \/ \E w \in Writers : DropWriter(w)
    \/ ConRead
    \/ DropProcess

SpecFile == Init /\ [][NextFile]_vars

\* Proc::spawn: the Proc after a spawn that succeeded; the size of its console
\* is always the current terminal's.
ProcSpawn == \E w \in WindowRects : Spawn(<<>>, <<w>>, 0)

\* impl Drop for Proc: the calls of Drop for Process, their results unused.
ProcDrop == DropProcess

\* The Proc of lib.rs: its endpoints handed out as Files over the master handles.
NextPty ==
    \/ ProcSpawn
    \/ ProcPtyInput
    \/ ProcPtyOutput
    \/ \E h \in Handles, len \in 0..1 : FileWrite(h, len)
    \/ \E h \in Handles : DropFile(h)
    \/ ConRead
    \/ ChildWrite
    \/ \E code \in ExitCodes : ChildExit(code)
    \/ ProcDrop

SpecPty == Init /\ [][NextPty]_vars

\* The console input of the parent: records arrive, the program reads keys and
\* asks whether stdin is empty.
NextStdin ==
    \/ \E rec \in StdinRecords : StdinArrive(rec)
    \/ StdinRead
    \/ IsStdinEmpty
    \/ IsStdinNotEmpty

SpecStdin == Init /\ [][NextStdin]_vars

\* The attribute list built for every pseudo console and every outcome of the
\* native calls within the bounds.
InitAttr ==
    /\ phase = "init"
    /\ handles = [h \in Handles |-> NoHandle]
    /\ proc = NoProc
    /\ con = [st |-> "none", size |-> <<0, 0>>, closes |-> 0]
    /\ attr = [st |-> "none", frees |-> 0]
    /\ tlog = <<>>
    /\ readers = [r \in Readers |-> NoReader]
    /\ writers = [w \in Writers |-> NoWriter]
    /\ outBuf = <<>>
    /\ produced = 0
    /\ inBuf = 0
    /\ inEnded = FALSE
    /\ nowait = {}
    /\ child = [st |-> "none", code |-> 0, kill |-> <<>>]
    /\ panicked = FALSE
    /\ stdin = <<>>
    /\ files = [h \in Handles |-> 0]
    /\ \E hPC \in HPCONs, sz \in SizingOutcomes, failInit \in BOOLEAN, failUpdate \in BOOLEAN :
          ret = Ret("HPCON", 0, "none", 0, <<hPC, sz, failInit, failUpdate>>, <<>>, "none")

NextAttr == BuildAttributeList

SpecAttr == InitAttr /\ [][NextAttr]_vars

\* The readers under the stream-mode strategy: set_non_blocking_mode in place
\* of blocking(false) and its availability check.
NextB ==
    \/ \E fail \in SpawnFailures : Spawn(<<>>, <<>>, fail)
    \/ ProcessOutput
    \/ \E r \in Readers : ReaderTryClone(r)
    \/ \E r \in Readers : SetNonBlockingMode(r)
    \/ \E r \in Readers : DropReader(r)
    \/ \E r \in Readers, len \in 1..MaxBufLen : ReadReturn(r, len)
    \/ ChildWrite
    \/ \E code \in ExitCodes : ChildExit(code)
    \/ ChildTerminated
    \/ \E code \in ExitCodes : Exit(code)
    \/ DropProcess

SpecB == Init /\ [][NextB]_vars

\* ------------------------------------------------------------------ claims
LiveReaders == {r \in Readers : readers[r].st = "live"}
LiveWriters == {w \in Writers : writers[w].st = "live"}
DroppedReaders == {r \in Readers : readers[r].st = "dropped"}
DroppedWriters == {w \in Writers : writers[w].st = "dropped"}

\* C1: for a live Process, each wrapper owns its own open handle on the shared
\* stream, so after any of its siblings has been dropped a write on a
\* remaining PipeWriter and a read on a remaining PipeReader do not fail.
C1_DropsLeaveOthersWorking ==
    phase = "live" =>
        /\ \A w \in LiveWriters :
              /\ IsOpen(handles, writers[w].h) /\ handles[writers[w].h].obj = "inW"
              /\ \A v \in LiveWriters : v # w => writers[v].h # writers[w].h
              /\ WriteFile(handles, con, inBuf, writers[w].h, 1).st # "Err"
        /\ \A r \in LiveReaders :
              /\ IsOpen(handles, readers[r].h) /\ handles[readers[r].h].obj = "outR"
              /\ \A q \in LiveReaders : q # r => readers[q].h # readers[r].h
              /\ ReadFile(handles, con, outBuf, FALSE, readers[r].h, 1).st # "Err"
        /\ (ret.op = "write" => ret.kind = "Ok")
        /\ (ret.op = "read" => ret.kind \in {"Ok", "WouldBlock"})

\* A write succeeds on a writer whose sibling has been dropped.
C1_Witness ==
    /\ phase = "live"
    /\ DroppedWriters # {} /\ DroppedReaders # {}
    /\ ret.op = "write" /\ ret.kind = "Ok" /\ ret.who \in LiveWriters

\* The input stream has ended for the console host: nothing is queued and no
\* handle on the write end is left.
InputStreamEnded == inBuf = 0 /\ ~InWriteEndOpen(handles)

\* C2 as stated: once every PipeWriter obtained from the Process has been
\* dropped, the console host observes the end of the input stream.
C2_AllWritersDroppedEndsInput ==
    (phase = "live" /\ DroppedWriters # {} /\ LiveWriters = {} /\ inBuf = 0)
        => InputStreamEnded

\* C2 amended: the Process's master input handle keeps the write end open
\* from spawn to teardown, so the write end is released exactly when the
\* Process has been dropped and no PipeWriter is left; dropping every
\* PipeWriter of a live Process does not end the input stream.
C2_InputEndsAfterMasterAndWriters ==
    /\ phase = "live" => InWriteEndOpen(handles) /\ ~inEnded
    /\ phase \in {"live", "dropped"} =>
          (~InWriteEndOpen(handles) <=> (phase = "dropped" /\ LiveWriters = {}))

\* Every writer was dropped while the Process lived, then the Process was dropped.
C2_Witness ==
    /\ phase = "dropped"
    /\ DroppedWriters = Writers
    /\ ~InWriteEndOpen(handles)

\* C3: input() and output() return a wrapper over a fresh duplicate, never
\* over a master handle; the master handles stay open while the Process
\* lives, so both calls keep succeeding after earlier wrappers were dropped.
C3_FreshDuplicates ==
    phase = "live" =>
        /\ IsOpen(handles, proc.input) /\ IsOpen(handles, proc.output)
        /\ handles[proc.input].owner = "Process" /\ handles[proc.output].owner = "Process"
        /\ \A w \in LiveWriters :
              /\ writers[w].h \notin {proc.input, proc.output}
              /\ handles[writers[w].h].owner = WOwner(w)
              /\ handles[writers[w].h].obj = handles[proc.input].obj
        /\ \A r \in LiveReaders :
              /\ readers[r].h \notin {proc.input, proc.output}
              /\ handles[readers[r].h].owner = ROwner(r)
              /\ handles[readers[r].h].obj = handles[proc.output].obj
        /\ (ret.op \in {"input", "output"} => ret.kind = "Ok")

\* output() succeeds again after the first PipeReader has been dropped.
C3_Witness ==
    /\ phase = "live"
    /\ ret.op = "output" /\ ret.kind = "Ok" /\ ret.who = 2
    /\ readers[1].st = "dropped"
    /\ DroppedWriters # {}

\* The owner of a handle has been dropped.
OwnerGone(o) ==
    \/ o = "Process" /\ phase = "dropped"
    \/ \E r \in DroppedReaders : o = ROwner(r)
    \/ \E w \in DroppedWriters : o = WOwner(w)

ObjectOwners == {"Process"} \cup {ROwner(r) : r \in Readers} \cup {WOwner(w) : w \in Writers}

\* C4: every handle held by the Process or by a wrapper is closed exactly
\* once, by its owner and when that owner is dropped; the pseudo console is
\* closed exactly once, by the drop of the Process.
C4_ClosedOnceByOwner ==
    /\ \A h \in Handles :
          handles[h].owner \in ObjectOwners =>
              /\ handles[h].closes <= 1
              /\ handles[h].closes = 1 => handles[h].closer = handles[h].owner
              /\ OwnerGone(handles[h].owner) <=> handles[h].closes = 1
              /\ handles[h].open <=> handles[h].closes = 0
    /\ phase = "live" => con.st = "open" /\ con.closes = 0
    /\ phase = "dropped" => con.st = "closed" /\ con.closes = 1

\* The Process and wrappers of both kinds have been dropped.
C4_Witness ==
    /\ phase = "dropped"
    /\ DroppedReaders # {} /\ DroppedWriters # {}
    /\ \A h \in {proc.input, proc.output, proc.hProcess, proc.hThread} :
          handles[h].closes = 1

\* The place of a call of drop in the teardown order.
TeardownRank(s) ==
    IF s = "ClosePseudoConsole" THEN 1
    ELSE IF s \in {"CloseHandle(hProcess)", "CloseHandle(hThread)"} THEN 2
    ELSE IF s \in {"DeleteProcThreadAttributeList", "Box::from_raw(lpAttributeList)"} THEN 3
    ELSE 4

TeardownCalls ==
    {"ClosePseudoConsole", "CloseHandle(hProcess)", "CloseHandle(hThread)",
     "DeleteProcThreadAttributeList", "Box::from_raw(lpAttributeList)",
     "CloseHandle(input)", "CloseHandle(output)"}

\* C5: teardown runs once, when the Process is dropped, and in this order:
\* the pseudo console is closed; then the process and thread handles; then
\* the attribute list is deleted and its buffer freed; then the two master
\* endpoints are closed.
C5_TeardownOrder ==
    /\ phase # "dropped" => tlog = <<>>
    /\ phase = "dropped" =>
          /\ Len(tlog) = Cardinality(TeardownCalls)
          /\ {tlog[i] : i \in 1..Len(tlog)} = TeardownCalls
          /\ \A i, j \in 1..Len(tlog) :
                i < j => TeardownRank(tlog[i]) <= TeardownRank(tlog[j])
          /\ \A i, j \in 1..Len(tlog) :
                (tlog[i] = "DeleteProcThreadAttributeList"
                    /\ tlog[j] = "Box::from_raw(lpAttributeList)") => i < j
          /\ con.st = "closed" /\ attr.st = "freed" /\ attr.frees = 1
          /\ \A h \in {proc.input, proc.output, proc.hProcess, proc.hThread} :
                ~handles[h].open

\* The Process has been dropped while wrappers were still alive.
C5_Witness ==
    /\ phase = "dropped" /\ tlog # <<>>
    /\ LiveReaders # {} /\ LiveWriters # {}

\* What a read would return now on reader r, had it a one-byte buffer.
ReadNow(r) ==
    read_from_pipe(ReadFile(handles, con, outBuf, StreamNoWait(nowait, r), readers[r].h, 1))

C6_BlockingSiblingReads ==
    /\ ret.op = "read" /\ ret.arg[1] => ret.kind # "WouldBlock"
    /\ \A r \in LiveReaders :
          (readers[r].blocking /\ outBuf # <<>>) =>
              (ReadNow(r).kind = "Ok" /\ ReadNow(r).n >= 1)

C6_OnlyThatInstance ==
    \A r \in Readers :
        (readers[r].st = "live" /\ readers'[r].st = "live"
            /\ readers'[r].blocking # readers[r].blocking) =>
                /\ \A q \in Readers : q # r => readers'[q] = readers[q]
                /\ nowait' = nowait /\ handles' = handles

\* C6: blocking(on) changes the mode of the PipeReader it is called on and of
\* nothing else; a sibling on the same stream left in blocking mode never
\* returns WouldBlock and returns data when data is available.
C6_ModeIsPerInstance == []C6_BlockingSiblingReads /\ [][C6_OnlyThatInstance]_vars

\* A blocking reader returns data while its sibling is in non-blocking mode.
C6_Witness ==
    /\ ret.op = "read" /\ ret.arg[1] /\ ret.kind = "Ok" /\ ret.n >= 1
    /\ \E q \in LiveReaders : q # ret.who /\ ~readers[q].blocking

C8_NonBlockingResult ==
    (ret.op = "read" /\ ~ret.arg[1]) =>
        /\ ret.kind = "WouldBlock" <=> (ret.err = "none" /\ ret.arg[2] = 0)
        /\ ret.kind = "WouldBlock" => (ret.n = 0 /\ ret.data = <<>>)
        /\ ret.arg[2] >= 1 =>
              /\ ret.kind \in {"Ok", "Err"}
              /\ ret.kind = "Ok" => (ret.n >= 1 /\ ret.n = Len(ret.data))

C8_StreamEffect ==
    /\ (ret'.op = "read" /\ ret'.kind = "WouldBlock") => outBuf' = outBuf
    /\ (ret'.op = "read" /\ ret'.kind = "Ok") => outBuf = ret'.data \o outBuf'

\* C8: a read on a PipeReader in non-blocking mode returns WouldBlock exactly
\* when its availability check reports zero bytes, and then takes nothing
\* from the stream; when the check reports at least one byte it performs the
\* normal read, whose bytes are the head of the stream.
C8_NonBlockingRead == []C8_NonBlockingResult /\ [][C8_StreamEffect]_vars

\* A non-blocking read returns WouldBlock after the stream had carried data.
C8_Witness ==
    /\ ret.op = "read" /\ ~ret.arg[1] /\ ret.kind = "WouldBlock"
    /\ produced > 0 /\ outBuf = <<>>

\* C9: a blocking read on a stream whose remote side has closed and that
\* holds no buffered bytes returns an error; no read returns Ok(0).
C9_EndedStreamIsError ==
    /\ ret.op = "read" /\ ret.kind = "Ok" => ret.n >= 1
    /\ \A r \in LiveReaders :
          (readers[r].blocking /\ outBuf = <<>> /\ ~OutWriteEndOpen(handles, con))
              => (ReadNow(r).kind = "Err" /\ ReadNow(r).err = "BrokenPipe")
    /\ (ret.op = "read" /\ ret.arg[1] /\ ret.data = <<>> /\ ~OutWriteEndOpen(handles, con))
          => (ret.kind = "Err" /\ ret.err = "BrokenPipe")

\* A blocking read has returned the error of the ended stream.
C9_Witness ==
    /\ ret.op = "read" /\ ret.arg[1]
    /\ ret.kind = "Err" /\ ret.err = "BrokenPipe"
    /\ ~OutWriteEndOpen(handles, con)

\* C10: wait(Some(t)) returns Err(Timeout(t)) when the child has not exited
\* as the wait ends, and returns Ok(code) only for a child that is
\* Exited(code): whatever the outcome of the native wait, never Ok for a
\* child that is still Running.
C10_TimedWaitOkOnlyIfExited ==
    (ret.op = "wait" /\ ret.arg # <<>>) =>
        /\ ret.kind = "Ok" => (child.st = "Exited" /\ ret.n = child.code)
        /\ ret.kind = "Timeout" => ret.n = ret.arg[1]

\* The variables a query of the Process must leave alone.
stateVars == <<phase, handles, proc, con, attr, tlog, readers, writers, outBuf,
               produced, inBuf, inEnded, nowait, child, panicked, stdin, files>>

\* C11 as stated: wait(None) fails only with WaitFailed, exactly when the
\* native wait ends with an outcome other than "signalled", and otherwise
\* returns the exit code.
C11_WaitNoneFailsOnlyWithWaitFailed ==
    (ret.op = "wait" /\ ret.arg = <<>>) =>
        /\ ret.kind \in {"Ok", "WaitFailed"}
        /\ ret.kind = "WaitFailed" <=> ret.err # "WAIT_OBJECT_0"

\* C11 amended: wait(None) never returns Timeout; it returns WaitFailed
\* exactly when the native wait ends with an outcome other than "signalled";
\* on "signalled" it queries the exit code and returns it, or returns the
\* system error when that query fails.
C11_WaitNone ==
    (ret.op = "wait" /\ ret.arg = <<>>) =>
        /\ ret.kind \in {"Ok", "WaitFailed", "Win"}
        /\ ret.kind = "WaitFailed" <=> ret.err # "WAIT_OBJECT_0"
        /\ ret.kind = "Ok" => (child.st = "Exited" /\ ret.n = child.code)

\* wait(None) has returned WaitFailed for a child that is still running.
C11_Witness ==
    /\ ret.op = "wait" /\ ret.arg = <<>>
    /\ ret.kind = "WaitFailed" /\ child.st = "Running"

C12_ExitedWaitResult ==
    (ret.op = "wait" /\ child.st = "Exited" /\ ret.err # "WAIT_FAILED" /\ ret.kind # "Win")
        => (ret.kind = "Ok" /\ ret.n = child.code)

C12_ExitedIsStable ==
    /\ child.st = "Exited" => child' = child
    /\ ret'.op = "wait" => UNCHANGED stateVars

\* C12: once the child is Exited(code), every wait whose native calls
\* succeed, with any timeout argument and however often it is repeated,
\* returns Ok(code) with that same code, and wait changes no state.
C12_WaitIdempotent == []C12_ExitedWaitResult /\ [][C12_ExitedIsStable]_vars

\* A timed wait with timeout 0 returns the code of a child that exited with code 1.
C12_Witness ==
    /\ ret.op = "wait" /\ ret.arg = <<0>>
    /\ child.st = "Exited" /\ child.code = 1
    /\ ret.kind = "Ok" /\ ret.n = 1

C13_PollResult ==
    /\ (ret.op = "is_alive" /\ ret.err # "WAIT_FAILED")
          => (ret.kind = "true" <=> child.st = "Running")
    /\ phase = "live" =>
          WaitForSingleObject(handles, proc.hProcess, child, 0, FALSE)
              \in {"WAIT_TIMEOUT", "WAIT_OBJECT_0"}

C13_PollChangesNothing == ret'.op = "is_alive" => UNCHANGED stateVars

\* C13: is_alive() returns true exactly when the child is still Running at
\* the poll (the zero-length native wait succeeding), never waits, and
\* changes no state.
C13_IsAlive == []C13_PollResult /\ [][C13_PollChangesNothing]_vars

\* is_alive() has returned false for a child that has exited.
C13_Witness ==
    /\ ret.op = "is_alive" /\ ret.kind = "false" /\ ret.err # "WAIT_FAILED"
    /\ child.st = "Exited"

C14_ExitReturnsAtOnce ==
    /\ (ret.op = "exit" /\ ret.kind = "Ok") => (child.st = "Running" /\ child.kill = ret.arg)
    /\ (child.st = "Exited" /\ child.kill # <<>>) => child.code = child.kill[1]

\* C14: exit(c) returning Ok on a Running child returns while the child is
\* still Running, and the child then eventually becomes Exited(c).
C14_ExitTerminates ==
    /\ []C14_ExitReturnsAtOnce
    /\ \A c \in ExitCodes :
          (ret.op = "exit" /\ ret.kind = "Ok" /\ ret.arg = <<c>>)
              ~> (child.st = "Exited" /\ child.code = c)

\* A wait has returned the code given to exit.
C14_Witness ==
    /\ ret.op = "wait" /\ ret.kind = "Ok" /\ ret.n = 1
    /\ child.st = "Exited" /\ child.kill = <<1>>

\* The ReadFile call a blocking read on reader r would make now.
ReadFileNow(r) ==
    ReadFile(handles, con, outBuf, StreamNoWait(nowait, r), readers[r].h, 1)

BlockingReaders == {r \in LiveReaders : readers[r].blocking /\ readers[r].pc = "idle"}

\* C15 as stated: after the child has exited and while the Process has not
\* been dropped, a blocking read on a PipeReader always completes.
C15_ReadAfterExitCompletes ==
    (child.st = "Exited" /\ phase = "live") =>
        \A r \in BlockingReaders : ReadFileNow(r).st # "Pending"

\* C15 amended: after the child has exited, a blocking read returns the
\* buffered bytes if there are any; with nothing buffered it stays blocked
\* for as long as the Process lives, because the pseudo console keeps the
\* write end of the stream open, and it returns the stream-ended error once
\* the Process has been dropped.
C15_ReadAfterExit ==
    child.st = "Exited" =>
        \A r \in BlockingReaders :
            /\ outBuf # <<>> => (ReadNow(r).kind = "Ok" /\ ReadNow(r).n >= 1)
            /\ (outBuf = <<>> /\ phase = "live") => ReadFileNow(r).st = "Pending"
            /\ (outBuf = <<>> /\ phase = "dropped")
                  => (ReadNow(r).kind = "Err" /\ ReadNow(r).err = "BrokenPipe")

\* A reader obtained after the exit has nothing to read and the Process lives.
C15_Witness ==
    /\ child.st = "Exited" /\ phase = "live" /\ outBuf = <<>>
    /\ ret.op = "output" /\ ret.kind = "Ok"
    /\ ret.who \in BlockingReaders

C16_NoOkNow ==
    (child.st = "Exited" /\ outBuf = <<>>) =>
        \A r \in BlockingReaders :
            \/ ReadFileNow(r).st = "Pending"
            \/ ReadNow(r).kind = "Err" /\ ReadNow(r).err = "BrokenPipe"

C16_NoOkReturned ==
    (child.st = "Exited" /\ outBuf = <<>>) => ~(ret'.op = "read" /\ ret'.kind = "Ok")

\* C16: after the child has exited and its output has been consumed, a
\* blocking read on an output PipeReader does not return Ok: it stays
\* blocked, or it ends with the "pipe has been ended" error.
C16_ReadAfterOutputConsumed == []C16_NoOkNow /\ [][C16_NoOkReturned]_vars

\* The output of an exited child was consumed and a later read ended with the error.
C16_Witness ==
    /\ child.st = "Exited" /\ outBuf = <<>> /\ produced > 0
    /\ ret.op = "read" /\ ret.arg[1]
    /\ ret.kind = "Err" /\ ret.err = "BrokenPipe"

C17_ResizeResult ==
    ret.op = "resize" => (ret.kind = "Ok" /\ con.size = ret.arg)

C17_ResizeFrame ==
    ret'.op = "resize" =>
        /\ UNCHANGED <<stdin, files, phase, handles, proc, attr, tlog, readers, writers, outBuf,
                       produced, inBuf, inEnded, nowait, child, panicked>>
        /\ con'.st = con.st /\ con'.closes = con.closes

\* C17: resize(cols, rows) sets the size of the pseudo console to the size
\* given and changes nothing else (the child's state and exit code, the
\* endpoints, the buffered bytes), and it succeeds at any point in the life
\* of the Process, also before any output or any reader.
C17_ResizeOnlySize == []C17_ResizeResult /\ [][C17_ResizeFrame]_vars

\* resize has succeeded before any output was produced or any reader obtained.
C17_Witness ==
    /\ ret.op = "resize" /\ ret.kind = "Ok" /\ con.size = <<9, 4>>
    /\ produced = 0 /\ LiveReaders = {} /\ DroppedReaders = {}

C18_PidResult ==
    ret.op = "pid" => (ret.kind = "Ok" /\ ret.n = proc.pid /\ ret.n # 0)

C18_PidFrame ==
    /\ ret'.op = "pid" => UNCHANGED stateVars
    /\ (phase = "live" /\ phase' = "live") => proc'.pid = proc.pid

\* C18: pid() returns the identifier of the spawned process, the same on
\* every call while the Process lives, whether the child is Running or
\* Exited; it does not fail and it changes no state.
C18_PidIsStable == []C18_PidResult /\ [][C18_PidFrame]_vars

\* pid() has returned the identifier of a child that has exited.
C18_Witness ==
    /\ ret.op = "pid" /\ ret.n = proc.pid
    /\ child.st = "Exited"

\* The entries of the Command of the last execProc that carry a value.
EnvEntries ==
    LET sel == SelectSeq(ret.arg, LAMBDA x : x[2] # <<>>)
    IN  [i \in 1..Len(sel) |-> <<sel[i][1], sel[i][2][1]>>]

EntryUnits(e) == e[1] \o <<EqualsSign>> \o e[2] \o <<0>>

\* Where entry i starts in the block: the units of the entries before it.
RECURSIVE EntryOffset(_, _)
EntryOffset(es, i) ==
    IF i <= 1 THEN 0 ELSE EntryOffset(es, i - 1) + Len(EntryUnits(es[i - 1]))

\* C19: the environment block is, for each entry, the units of KEY, "=",
\* the units of VALUE and one terminator 0, followed by exactly one more
\* terminator; the empty set encodes to [0, 0] and {K: V} to "K=V" with two
\* terminators.
C19_EnvironmentBlock ==
    ret.op = "execProc" =>
        LET es == EnvEntries
            b == ret.data
            n == Len(es)
        IN  /\ n = 0 => b = <<0, 0>>
            /\ n = 1 => b = es[1][1] \o <<EqualsSign>> \o es[1][2] \o <<0, 0>>
            /\ n >= 1 =>
                  /\ Len(b) = EntryOffset(es, n + 1) + 1
                  /\ b[Len(b)] = 0
                  /\ \A i \in 1..n :
                        SubSeq(b, EntryOffset(es, i) + 1, EntryOffset(es, i + 1))
                            = EntryUnits(es[i])

\* A block of two entries has been built.
C19_Witness ==
    /\ ret.op = "execProc"
    /\ Len(EnvEntries) = 2
    /\ Len(ret.data) > 4

\* C20: execProc passes an environment block to CreateProcessW exactly when
\* the Command carries at least one variable with a value; variables marked
\* for removal do not count, and with no valued variable no block is passed.
C20_BlockPassedIffValued ==
    ret.op = "execProc" =>
        /\ ret.kind \in {"Some", "None"}
        /\ ret.kind = "Some" <=> (\E i \in 1..Len(ret.arg) : ret.arg[i][2] # <<>>)

\* A Command that only marks variables for removal: no block is passed.
C20_Witness ==
    /\ ret.op = "execProc" /\ ret.kind = "None"
    /\ ret.arg # <<>>

\* The offset in the command line of the space before argument i.
RECURSIVE ArgOffset(_, _, _)
ArgOffset(program, args, i) ==
    IF i = 1 THEN Len(program) + 1
    ELSE ArgOffset(program, args, i - 1) + 1 + Len(args[i - 1])

\* C21: the command line handed to process creation is the program string
\* followed, for each argument in order, by one space and the argument
\* unchanged, with nothing added for quoting or escaping; with no arguments it
\* is the program string alone (as a NUL-terminated UTF-16 string).
C21_CommandLine ==
    ret.op = "execProc_commandline" =>
        LET program == ret.arg[1]
            args == ret.arg[2]
            line == ret.data
            end == ArgOffset(program, args, Len(args) + 1)
        IN  /\ Len(line) = end
            /\ line[end] = 0
            /\ SubSeq(line, 1, Len(program)) = program
            /\ \A i \in 1..Len(args) :
                  LET at == ArgOffset(program, args, i)
                  IN  /\ line[at] = Space
                      /\ SubSeq(line, at + 1, at + Len(args[i])) = args[i]
            /\ (args = <<>> => line = Append(program, 0))

\* A command line built from two arguments, one a double quote and one a space.
C21_Witness ==
    /\ ret.op = "execProc_commandline"
    /\ ret.arg[1] = <<97>>
    /\ ret.arg[2] = << <<34>>, <<Space>> >>
    /\ ret.data = <<97, Space, 34, Space, Space, 0>>

\* The size spawn_command is to give the pseudo console for a caller's size
\* option and an outcome of reading the current terminal's window.
ExpectedSize(opt, inherit) ==
    IF opt # <<>> THEN opt[1]
    ELSE IF inherit # <<>>
         THEN LET w == inherit[1] IN <<w[3] - w[1] + 1, w[4] - w[2] + 1>>
         ELSE <<80, 25>>

\* C22: the pseudo console is created with the caller's size when one was
\* set; otherwise with the current terminal's window size (right-left+1
\* columns, bottom-top+1 rows) when it can be read; otherwise with 80 by 25.
\* Spawn fails only when one of its creation calls fails, never because the
\* current terminal could not be reached.
C22_ConsoleSizeAtSpawn ==
    ret.op = "spawn" =>
        /\ (con.st = "open" => con.size = ExpectedSize(ret.arg[2], ret.arg[3]))
        /\ (ret.kind = "Ok" => con.st = "open")
        /\ (ret.kind = "Ok" <=> ret.n = 0)
        /\ (ret.kind = "Err" => ret.n \in 1..Len(SpawnSteps) /\ ret.err = SpawnSteps[ret.n])
        /\ (ret.arg[2] = <<>> /\ ret.arg[3] = <<>> /\ con.st = "open" => con.size = <<80, 25>>)

\* A spawn without a caller's size under a terminal whose window is 8 by 4.
C22_Witness ==
    /\ ret.op = "spawn" /\ ret.kind = "Ok"
    /\ ret.arg[2] = <<>> /\ ret.arg[3] = << <<2, 1, 9, 4>> >>
    /\ con.size = <<8, 4>>

\* The handles createPseudoConsole creates: the four pipe ends.
PipeHandles == {"pty_in", "con_writer", "con_reader", "pty_out"}
OpenPipeHandles == {h \in PipeHandles : IsOpen(handles, h)}

\* The calls inside createPseudoConsole.
CreatePseudoConsoleCalls ==
    {"pipe_in", "pipe_out", "CreatePseudoConsole", "close_pty_in", "close_pty_out"}

\* C29: when a pipe creation, the pseudo-console creation or a close call
\* fails inside createPseudoConsole, the error is returned and no pipe handle
\* it created is left open in the parent.
C29_FailedCreateClosesPipes ==
    (ret.op = "spawn" /\ ret.kind = "Err" /\ ret.err \in CreatePseudoConsoleCalls)
        => OpenPipeHandles = {}

\* C30: after createPseudoConsole has succeeded, the parent's handles on the
\* ends given to the pseudo console (the read end of the input pipe, the write
\* end of the output pipe) are closed, and the parent holds exactly two open
\* pipe handles: the read end of the pipe the child writes to, returned as
\* output, and the write end of the pipe the child reads from, returned as input.
C30_KeptPipeEnds ==
    (ret.op = "spawn" /\ (ret.kind = "Ok" \/ ret.err \notin CreatePseudoConsoleCalls)) =>
        /\ ~IsOpen(handles, "pty_in") /\ handles["pty_in"].obj = "inR"
        /\ ~IsOpen(handles, "pty_out") /\ handles["pty_out"].obj = "outW"
        /\ handles["pty_in"].closes = 1 /\ handles["pty_out"].closes = 1
        /\ Cardinality(OpenPipeHandles) = 2
        /\ \E i \in OpenPipeHandles, o \in OpenPipeHandles :
              /\ handles[i].obj = "inW" /\ handles[o].obj = "outR"
              /\ (ret.kind = "Ok" => proc.input = i /\ proc.output = o)

\* A spawn that succeeded: the Process holds con_writer and con_reader.
C30_Witness ==
    /\ ret.op = "spawn" /\ ret.kind = "Ok"
    /\ proc.input = "con_writer" /\ proc.output = "con_reader"
    /\ OpenPipeHandles = {"con_writer", "con_reader"}

\* The handle of the Process that a call of drop closes.
TeardownHandle(s) ==
    IF s = "CloseHandle(hProcess)" THEN proc.hProcess
    ELSE IF s = "CloseHandle(hThread)" THEN proc.hThread
    ELSE IF s = "CloseHandle(input)" THEN proc.input
    ELSE proc.output

\* C23: the teardown of a Process makes all of its calls, in order, also when
\* one of its close calls fails: the failed close does not panic, the calls
\* after it are made and take effect, and drop returns nothing to the caller.
C23_TeardownRunsAllSteps ==
    [][(phase = "live" /\ phase' = "dropped") =>
          /\ tlog' = TeardownSteps
          /\ panicked' = panicked
          /\ ret'.kind = "none"
          /\ con'.st = "closed" /\ attr'.st = "freed"
          /\ \A s \in TeardownCloses :
                s # ret'.err => ~IsOpen(handles', TeardownHandle(s))]_vars

\* The Process was dropped with CloseHandle(hProcess) failing: the later
\* calls were made and the master endpoints are closed.
C23_Witness ==
    /\ phase = "dropped" /\ ret.op = "drop" /\ ret.err = "CloseHandle(hProcess)"
    /\ tlog = TeardownSteps
    /\ IsOpen(handles, "hProcess")
    /\ ~IsOpen(handles, "hThread") /\ ~IsOpen(handles, "con_writer")
    /\ ~IsOpen(handles, "con_reader")
    /\ ~panicked

\* C24: dropping a PipeReader or a PipeWriter never panics, also when the
\* close of its handle fails.
C24_WrapperDropNeverPanics ==
    [][\A r \in Readers, w \in Writers :
          (\/ readers[r].st = "live" /\ readers'[r].st = "dropped"
           \/ writers[w].st = "live" /\ writers'[w].st = "dropped")
          => panicked' = panicked]_vars

\* The stream holds, in the order written, exactly the bytes written and not
\* yet returned by a read: the last (Len(outBuf)) of the bytes 1..produced.
StreamInOrder ==
    \A i \in 1..Len(outBuf) : outBuf[i] = produced - Len(outBuf) + i

\* A step takes bytes from the stream only as a read that returns them: the
\* bytes returned are the front of the stream and exactly these leave it.
C25_TakenOnlyByRead ==
    [][/\ (ret'.op = "read" /\ ret'.kind = "Ok") =>
             /\ ret'.n >= 1 /\ ret'.n = Len(ret'.data)
             /\ outBuf = ret'.data \o outBuf'
             /\ readers[ret'.who].st = "live"
       /\ outBuf' # outBuf =>
             \/ ret'.op = "read" /\ ret'.kind = "Ok"
             \/ outBuf' = Append(outBuf, produced') /\ produced' = produced + 1]_vars

\* C25: readers cloned from one another read one stream: every byte the child
\* writes is returned by exactly one read of one reader, in stream order; a
\* byte returned through one reader is not returned again through a sibling
\* and none is lost, however the reads of the siblings interleave.
C25_SharedStream == []StreamInOrder /\ C25_TakenOnlyByRead

\* With two live readers, the clone has just read byte 2 after byte 1 had
\* been taken by an earlier read.
C25_Witness ==
    /\ LiveReaders = Readers
    /\ ret.op = "read" /\ ret.kind = "Ok" /\ ret.who = 2
    /\ ret.data = <<2>> /\ produced = 2 /\ outBuf = <<>>

\* The File made from a wrapper owns handle h: open and never closed while
\* the File lives, closed once and by the File afterwards.
FileOwns(h) ==
    IF files[h] > 0
    THEN IsOpen(handles, h) /\ handles[h].closes = 0
    ELSE ~IsOpen(handles, h) /\ handles[h].closes = 1 /\ handles[h].closer = "File"

\* C26: converting a PipeReader or a PipeWriter into a std::fs::File hands
\* its handle over: the handle is open when the conversion returns and it is
\* closed exactly once, by the File, never by the consumed wrapper.
C26_ConversionTransfersHandle ==
    /\ \A r \in Readers : readers[r].st = "consumed" => FileOwns(readers[r].h)
    /\ \A w \in Writers : writers[w].st = "consumed" => FileOwns(writers[w].h)

\* C27: the Files that pty_input() of one Proc returns hold the same handle:
\* once one of them has been dropped, a write through another one fails;
\* until then a write through any of them does not fail.
C27_PtyInputWritersShareHandle ==
    phase = "live" =>
        /\ (files[proc.input] > 0 /\ handles[proc.input].closer = "File")
              => WriteFile(handles, con, inBuf, proc.input, 0).st = "Err"
        /\ (ret.op = "file_write" /\ ret.arg[1] = proc.input) =>
              (ret.kind = "Err" <=> handles[proc.input].closer = "File")
        /\ (ret.op = "pty_input" => ret.arg[1] = proc.input)

\* Two Files came from pty_input(), one was dropped, and a write of no bytes
\* through the other has failed.
C27_Witness ==
    /\ phase = "live"
    /\ files[proc.input] = 1 /\ handles[proc.input].closer = "File"
    /\ ret.op = "file_write" /\ ret.arg = <<proc.input, 0>> /\ ret.kind = "Err"

\* C28: Console::is_stdin_empty() returns true exactly when no input is
\* waiting on stdin, that is when a read of stdin would block, and false
\* exactly when input is waiting.
C28_IsStdinEmpty ==
    ret.op = "is_stdin_empty" =>
        /\ (ret.kind = "true" <=> FirstKey(stdin) = 0)
        /\ (ret.kind = "false" <=> FirstKey(stdin) # 0)

\* C31: initializeStartupInfoAttachedToConPTY returns an error, having
\* allocated nothing, when the sizing call reports success or a required size
\* of zero; otherwise it allocates exactly the reported number of bytes and,
\* its two further native calls succeeding, returns the list initialised in
\* that buffer with its one attribute set to the pseudo-console value.
C31_AttributeListBuilt ==
    ret.op = "initializeStartupInfoAttachedToConPTY" =>
        LET hPC == ret.arg[1]
            sz == ret.arg[2]
            native_ok == ~ret.arg[3] /\ ~ret.arg[4]
        IN  IF sz.ok \/ sz.size = 0
            THEN ret.kind = "Err" /\ ret.n = 0 /\ ret.data = <<"none", <<>>>>
            ELSE /\ ret.n = sz.size
                 /\ (ret.kind = "Ok" <=> native_ok)
                 /\ (native_ok => ret.data = <<"initialized", <<131094, hPC>>>>)

\* The sizing call asked for 3 bytes: 3 bytes were allocated and the
\* attribute holds the pseudo console.
C31_Witness ==
    /\ ret.op = "initializeStartupInfoAttachedToConPTY" /\ ret.kind = "Ok"
    /\ ret.arg[2] = [ok |-> FALSE, size |-> 3] /\ ret.n = 3
    /\ ret.data[2] = <<PROC_THREAD_ATTRIBUTE_PSEUDOCONSOLE, ret.arg[1]>>

\* The position of a call in the log of drop, 0 if it was not made.
LogIndex(s) ==
    IF \E i \in 1..Len(tlog) : tlog[i] = s
    THEN CHOOSE i \in 1..Len(tlog) : tlog[i] = s
    ELSE 0

\* C32: the attribute-list buffer is allocated after the pseudo console
\* exists and before process creation, is still allocated when the creation
\* call has returned (with success or failure), and is freed exactly once, in
\* the teardown of its Process, after the pseudo console and the process and
\* thread handles are closed and before the master endpoints are; the builder
\* and spawn never free it.
C32_AttributeBufferLifetime ==
    /\ attr.st # "none" => con.st # "none"
    /\ handles["hProcess"].obj # "none" => attr.st # "none"
    /\ (ret.op = "spawn" /\ (ret.kind = "Ok" \/ ret.err = "CreateProcessW"))
          => attr.st = "allocated"
    /\ phase \in {"init", "live", "failed"} => attr.frees = 0
    /\ phase = "live" => attr.st = "allocated"
    /\ phase = "dropped" =>
          /\ attr.st = "freed" /\ attr.frees = 1
          /\ Cardinality({i \in 1..Len(tlog) : tlog[i] = "Box::from_raw(lpAttributeList)"}) = 1
          /\ \A s \in {"ClosePseudoConsole", "CloseHandle(hProcess)", "CloseHandle(hThread)",
                         "DeleteProcThreadAttributeList"} :
                LogIndex(s) # 0 /\ LogIndex(s) < LogIndex("Box::from_raw(lpAttributeList)")
          /\ \A s \in {"CloseHandle(input)", "CloseHandle(output)"} :
                LogIndex(s) > LogIndex("Box::from_raw(lpAttributeList)")

\* A Process spawned and dropped: its buffer was freed once.
C32_Witness ==
    /\ phase = "dropped"
    /\ attr = [st |-> "freed", frees |-> 1]
    /\ LogIndex("Box::from_raw(lpAttributeList)") = 5

\* The calls of spawn after createPseudoConsole has returned.
AfterConsoleCalls == {"attr_size", "attr_init", "attr_update", "CreateProcessW"}

\* C33: when spawn fails after the pseudo console was created, in the
\* construction of the attribute list or in process creation, it returns an
\* error and no Process, and the pseudo console, both master pipe ends and the
\* attribute-list buffer have been released.
C33_FailedSpawnReleasesAll ==
    (ret.op = "spawn" /\ ret.err \in AfterConsoleCalls) =>
        /\ ret.kind = "Err" /\ proc = NoProc
        /\ con.st # "open"
        /\ \A h \in Handles : ~IsOpen(handles, h)
        /\ attr.st # "allocated"

\* is_alive() has returned false, the native wait having succeeded.
NotAliveSeen == ret.op = "is_alive" /\ ret.kind = "false" /\ ret.err = "none"

\* What a call returns once the process is known to have exited.
ExitedAnswers ==
    /\ (ret.op = "is_alive" /\ ret.err = "none") => ret.kind = "false"
    /\ ret.op = "wait" => ret.kind # "Timeout"
    /\ (ret.op = "wait" /\ ret.kind = "Ok") => ret.n = child.code
    /\ ret.op = "exit" => ret.kind = "Err"

\* The process goes from Running to Exited(code) only, and Exited(code) is final.
C34_StateMoves ==
    [][/\ child'.st # child.st =>
             \/ child.st = "none" /\ child'.st = "Running"
             \/ child.st = "Running" /\ child'.st = "Exited"
       /\ child.st = "Exited" => child' = child]_vars

\* C34: the process state only moves from Running to Exited(code) and never
\* back: once is_alive() has returned false, every later is_alive() returns
\* false, no later wait returns Timeout, and a later exit(code2) fails and
\* leaves the exit code that wait returns as it was.
C34_ExitedIsFinal == C34_StateMoves /\ [](NotAliveSeen => [](child.st = "Exited" /\ ExitedAnswers))

\* The child exited with code 0 and a later exit(1) has failed.
C34_Witness ==
    /\ child.st = "Exited" /\ child.code = 0
    /\ ret.op = "exit" /\ ret.arg = <<1>> /\ ret.kind = "Err"

\* C35: a read on a PipeReader in non-blocking mode never blocks the calling
\* thread, also when a sibling reader over the same stream takes the available
\* bytes between this reader's availability check and its read: the ReadFile
\* of a reader that has passed its check returns at once.
C35_NonBlockingNeverBlocks ==
    \A r \in Readers :
        (readers[r].st = "live" /\ ~readers[r].blocking /\ readers[r].pc = "reading") =>
            \A len \in 1..MaxBufLen :
                ReadFile(handles, con, outBuf, StreamNoWait(nowait, r), readers[r].h, len).st # "Pending"

\* try_clone has just returned.
TryCloneReturned == ret.op = "reader_try_clone"

\* The reader a successful try_clone returned: live, in blocking mode, on a
\* handle of its own that is open on the object of the source's handle.
C36_ClonedReader ==
    (TryCloneReturned /\ ret.kind = "Ok") =>
        LET new == readers[ret.who]
            src == readers[ret.arg[1]]
        IN  /\ new.st = "live" /\ new.blocking /\ new.pc = "idle"
            /\ new.h # src.h /\ new.h \notin SpawnHandles
            /\ \A q \in Readers \ {ret.who} : readers[q].st = "live" => readers[q].h # new.h
            /\ IsOpen(handles, new.h) /\ handles[new.h].obj = handles[src.h].obj

\* A failed try_clone leaves no reader behind.
C36_FailedClone ==
    (TryCloneReturned /\ ret.kind = "Err") => readers[ret.who].st = "none"

\* What a try_clone step leaves alone: every other reader, the source with
\* its mode and handle, every handle but the new one, and the stream.
C36_Frame ==
    (ret' # ret /\ ret'.op = "reader_try_clone") =>
        /\ \A q \in Readers \ {ret'.who} : readers'[q] = readers[q]
        /\ \A h \in Handles \ {ROwner(ret'.who)} : handles'[h] = handles[h]
        /\ outBuf' = outBuf /\ nowait' = nowait
        /\ ret'.kind = "Err" => (readers' = readers /\ handles' = handles)

\* C36: PipeReader::try_clone returns a reader over the same stream that owns
\* a separate duplicated handle and starts in blocking mode, also when the
\* source reader is in non-blocking mode; the mode and the handle of the
\* source are unchanged, and a failed duplication leaves no new reader.
C36_TryClone == [](C36_ClonedReader /\ C36_FailedClone) /\ [][C36_Frame]_vars

\* try_clone has returned a reader cloned from a reader in non-blocking mode.
C36_Witness ==
    /\ TryCloneReturned /\ ret.kind = "Ok"
    /\ ~readers[ret.arg[1]].blocking /\ readers[ret.who].blocking

\* try_clone has failed on a reader in non-blocking mode.
C36_WitnessFailed ==
    /\ TryCloneReturned /\ ret.kind = "Err" /\ ~readers[ret.arg[1]].blocking

\* C37: for every timeout t of type u32, the largest value included,
\* wait(Some(t)) on a running process whose native calls succeed returns
\* Err(Timeout) carrying t milliseconds.
C37_TimedWaitTimesOut ==
    (phase = "live" /\ child.st = "Running" /\ IsOpen(handles, proc.hProcess)) =>
        \A t \in 0..U32Max :
            LET k == wait_process(handles, proc.hProcess, child, <<t>>, FALSE, FALSE)
            IN  k.kind = "Timeout" /\ k.n = t

\* C38: every CONOUT$ handle opened by enableVirtualTerminalSequenceProcessing,
\* inhirentConsoleSize or console_stdout_set_echo is closed when the function
\* has returned, with success or with an error: no handle on CONOUT$ is open
\* between the calls.
C38_ConoutClosed == \A h \in ConoutHandles : ~IsOpen(handles, h)

=============================================================================
